---- MODULE Spec2Model ----
(***************************************************************************)
(* A model of the tikz-editor pipeline: the CoordinateSystem              *)
(* (src/src/coordinates.js), the recursive-descent Parser                 *)
(* (src/unnamed/part_003) working on the token list the Lexer produces,   *)
(* and the line-segment part of the Renderer (src/src/renderer.js).       *)
(*                                                                         *)
(* Numbers.  The JavaScript code computes in IEEE doubles.  The model     *)
(* computes in exact rationals <<n, d>> (d > 0, lowest terms): every      *)
(* arithmetic step of the code is carried out, but without rounding.      *)
(* Angles of polar coordinates are multiples of 90 degrees, whose sine    *)
(* and cosine are 0, 1 or -1.                                              *)
(*                                                                         *)
(* Text.  A COORDINATE token's value is a string in the code; here it is  *)
(* the record of what the regular expressions of parseCoordinate find in  *)
(* it (its kind and its parts).  An atom is one comma-free piece of text: *)
(* a number, a word, a number followed by a unit, or a \foreach variable. *)
(***************************************************************************)
EXTENDS Integers, Sequences, FiniteSets, TLC

VARIABLES
    coordSystem,  \* the CoordinateSystem object
    call,         \* the last parseCoordinate call: arguments, result, state before
    prevCall,     \* the call made immediately before it, or NoCall
    calls,        \* number of calls made on the CoordinateSystem (bounded)
    probe,        \* a getNodeBoundaryPoint query and the answers of both implementations
    parser,       \* the Parser object: tokens, position, coordSystem, styles, errors
    document,     \* document.commands of parse()
    pc,           \* where the pipeline is: parsing, returned, rendered, thrown
    nodeMetrics,  \* the Renderer's nodeMetrics map
    rendered,     \* per command, the end points renderDraw gives its line segments
    step,         \* the last pass of the loop of parse(): parser before, threw or not
    heap,         \* the objects Style code allocates: Style objects, arrays, decorations
    styleCall,    \* the last operation on a Style: its kind, its arguments, the heap before
    renderer,     \* a Renderer object that serves several render() calls
    sample,       \* the arguments and the result of a numerical routine
    editor        \* the page: the TikZEditor, its timers, the loads under way

coordVars == <<coordSystem, call, prevCall, calls>>
parseVars == <<parser, document, pc, nodeMetrics, rendered, step>>
moreVars == <<heap, styleCall, renderer, sample, editor>>
vars == <<coordSystem, call, prevCall, calls, probe, parser, document, pc,
          nodeMetrics, rendered, step, heap, styleCall, renderer, sample,
          editor>>

\* A local constant: Let(e, LAMBDA x : b) is b with x standing for e, as
\* "const x = e" in the code
Let(e, In(_)) == In(e)

-----------------------------------------------------------------------------
(* Exact rational arithmetic *)

Abs(i) == IF i < 0 THEN -i ELSE i

RECURSIVE Gcd(_, _)
Gcd(a, b) == IF b = 0 THEN a ELSE Gcd(b, a % b)

Rat(n, d) ==
    Let(IF d < 0 THEN -1 ELSE 1, LAMBDA s :
    Let(Gcd(Abs(n), Abs(d)), LAMBDA g :
        <<(s * n) \div g, (s * d) \div g>>))

R(i) == <<i, 1>>
RAdd(p, q) == Rat(p[1] * q[2] + q[1] * p[2], p[2] * q[2])
RSub(p, q) == Rat(p[1] * q[2] - q[1] * p[2], p[2] * q[2])
RMul(p, q) == Rat(p[1] * q[1], p[2] * q[2])
RDiv(p, q) == Rat(p[1] * q[2], p[2] * q[1])
RNeg(p) == <<-p[1], p[2]>>
RAbs(p) == <<Abs(p[1]), p[2]>>
RLe(p, q) == p[1] * q[2] <= q[1] * p[2]
RLt(p, q) == p[1] * q[2] < q[1] * p[2]
RMax(p, q) == IF RLe(p, q) THEN q ELSE p
RHalf(p) == Rat(p[1], 2 * p[2])

-----------------------------------------------------------------------------
(* Point, coordinates.js 4-35 *)

Point(x, y) == [x |-> x, y |-> y]
Pt(i, j) == Point(R(i), R(j))
PointAdd(p, q) == Point(RAdd(p.x, q.x), RAdd(p.y, q.y))
PointSubtract(p, q) == Point(RSub(p.x, q.x), RSub(p.y, q.y))
Point3(x, y, z) == [x |-> x, y |-> y, z |-> z]

\* JavaScript's null where a Point is expected
Null == [null |-> TRUE]

-----------------------------------------------------------------------------
(* Text atoms and coordinate literals *)

Num(i) == [t |-> "num", v |-> i]
Dec(n, d) == [t |-> "dec", n |-> n, d |-> d]
Word(w) == [t |-> "word", w |-> w]
NumUnit(i, u) == [t |-> "numunit", v |-> i, u |-> u]
\* a command inside a text (backslash and letters): w is the sequence of
\* its letters, so that the text replacement of \foreach can cut it
Var(w) == [t |-> "var", w |-> w]

Tuple(parts) == [kind |-> "tuple", parts |-> parts]
Polar(angle, radius) == [kind |-> "polar", angle |-> angle, radius |-> radius]
Name(atom) == [kind |-> "name", name |-> atom]
Anchor(atom, anchorName) == [kind |-> "anchor", node |-> atom, anchor |-> anchorName]
Calc(left, op, right) == [kind |-> "calc", left |-> left, op |-> op, right |-> right]
Other == [kind |-> "other"]

\* Math.cos and Math.sin at a multiple of 90 degrees
Cos90(angle) == CASE angle % 360 = 0 -> 1 [] angle % 360 = 180 -> -1 [] OTHER -> 0
Sin90(angle) == CASE angle % 360 = 90 -> 1 [] angle % 360 = 270 -> -1 [] OTHER -> 0

-----------------------------------------------------------------------------
(* CoordinateSystem, coordinates.js 37-491 *)

AnchorNames == {"center", "north", "south", "east", "west",
                "north east", "north west", "south east", "south west"}

\* a Map: a function whose domain is the set of keys present
MapSet(m, k, v) == [n \in (DOMAIN m) \cup {k} |-> IF n = k THEN v ELSE m[n]]
MapHas(m, k) == k \in DOMAIN m
EmptyMap == [n \in {} |-> Null]

NewCoordinateSystem ==
    [namedCoordinates |-> EmptyMap,
     nodes |-> EmptyMap,
     currentPosition |-> Pt(0, 0),
     currentPosition3D |-> Point3(R(0), R(0), R(0)),
     globalScale |-> R(1)]

reset(cs) ==
    [cs EXCEPT !.currentPosition = Pt(0, 0),
               !.currentPosition3D = Point3(R(0), R(0), R(0))]

\* axisScale, globalScale and zProjection are written only by setAxisScale
\* and setGlobalScale, which no code of the repository calls: the scales are
\* the identity in every state the program reaches (axisScale and
\* zProjection, all 1, are folded into the sums below).
project3D(cs, x, y, z) ==
    Let(RMul(x, cs.globalScale), LAMBDA scaledX :
    Let(RMul(y, cs.globalScale), LAMBDA scaledY :
    Let(RMul(z, cs.globalScale), LAMBDA scaledZ :
        Point(RAdd(scaledX, scaledZ), RAdd(scaledY, scaledZ)))))

setNamedCoordinate(cs, name, point) ==
    [cs EXCEPT !.namedCoordinates = MapSet(@, name, point)]

registerNode(cs, name, point, anchors, shape, width, height) ==
    [cs EXCEPT !.nodes = MapSet(@, name,
        [center |-> point, anchors |-> anchors, shape |-> shape,
         width |-> width, height |-> height])]

\* The circle branch multiplies by Math.SQRT1_2, which is irrational: the
\* model keeps the corner anchors of a circle at the bounding-box corner and
\* no formula of this module reads a circle's corner anchor.
calculateAnchors(center, shape, width, height) ==
    Let(RHalf(width), LAMBDA hw :
    Let(RHalf(height), LAMBDA hh :
        [a \in AnchorNames |->
          CASE a = "center" -> center
            [] a = "north" -> Point(center.x, RAdd(center.y, hh))
            [] a = "south" -> Point(center.x, RSub(center.y, hh))
            [] a = "east" -> Point(RAdd(center.x, hw), center.y)
            [] a = "west" -> Point(RSub(center.x, hw), center.y)
            [] a = "north east" -> Point(RAdd(center.x, hw), RAdd(center.y, hh))
            [] a = "north west" -> Point(RSub(center.x, hw), RAdd(center.y, hh))
            [] a = "south east" -> Point(RAdd(center.x, hw), RSub(center.y, hh))
            [] a = "south west" -> Point(RSub(center.x, hw), RSub(center.y, hh))]))

\* parseNumericExpression: a number for numeric text, null (here "none")
\* for anything else.  "2cm" is not numeric: parseFloat gives 2, but
\* (2).toString() differs from the text, and the letters fail the
\* expression pattern.
IsNumeric(atom) == atom.t \in {"num", "dec"}
NumericValue(atom) == IF atom.t = "num" THEN R(atom.v) ELSE Rat(atom.n, atom.d)

\* the name pattern /^[a-zA-Z_][a-zA-Z0-9_-]*$/
IsName(atom) == atom.t = "word"


\* a cursor that moves whatever updatePosition says
MovedAlways(cs, updatePosition, point, point3D) ==
    [cs EXCEPT !.currentPosition = point, !.currentPosition3D = point3D]

\* the cursor after a coordinate was resolved (updatePosition decides)
Moved(cs, updatePosition, point, point3D) ==
    IF updatePosition
    THEN [cs EXCEPT !.currentPosition = point, !.currentPosition3D = point3D]
    ELSE cs

\* the anchor branch writes currentPosition only (coordinates.js 284-292)
MovedAnchor(cs, updatePosition, point) ==
    IF updatePosition THEN [cs EXCEPT !.currentPosition = point] ELSE cs

\* a numeric tuple of two or three parts (coordinates.js 223-273)
ParseTuple(cs, parts, isRelative, updatePosition) ==
    Let(NumericValue(parts[1]), LAMBDA x :
    Let(NumericValue(parts[2]), LAMBDA y :
    Let(IF Len(parts) = 3 THEN NumericValue(parts[3]) ELSE R(0), LAMBDA z :
    Let(cs.currentPosition3D, LAMBDA cur :
    Let(IF isRelative
        THEN Point3(RAdd(cur.x, x), RAdd(cur.y, y), RAdd(cur.z, z))
        ELSE Point3(x, y, z), LAMBDA point3D :
    Let(project3D(cs, point3D.x, point3D.y, point3D.z), LAMBDA projected :
        [point |-> projected, cs |-> Moved(cs, updatePosition, projected, point3D)]))))))

\* angle:radius (coordinates.js 179-202)
ParsePolar(cs, lit, isRelative, updatePosition) ==
    Let(R(lit.radius * Cos90(lit.angle)), LAMBDA x :
    Let(R(lit.radius * Sin90(lit.angle)), LAMBDA y :
    Let(cs.currentPosition3D, LAMBDA cur :
    Let(IF isRelative
        THEN Point3(RAdd(cur.x, x), RAdd(cur.y, y), cur.z)
        ELSE Point3(x, y, R(0)), LAMBDA point3D :
    Let(project3D(cs, point3D.x, point3D.y, point3D.z), LAMBDA projected :
        [point |-> projected, cs |-> Moved(cs, updatePosition, projected, point3D)])))))

\* name.anchor of a registered node (coordinates.js 276-295)
ParseAnchor(cs, lit, updatePosition) ==
    Let(cs.nodes[lit.node.w], LAMBDA node :
    Let(IF lit.anchor \in DOMAIN node.anchors
        THEN node.anchors[lit.anchor]
        ELSE node.center, LAMBDA point :
        [point |-> point, cs |-> MovedAnchor(cs, updatePosition, point)]))

\* a bare name: nodes first, then named coordinates (coordinates.js 298-321)
ParseNamed(cs, lit, updatePosition) ==
    Let(IF MapHas(cs.nodes, lit.name.w)
        THEN cs.nodes[lit.name.w].center
        ELSE cs.namedCoordinates[lit.name.w], LAMBDA point :
        [point |-> point,
         cs |-> Moved(cs, updatePosition, point, Point3(point.x, point.y, R(0)))])

\* a fallback that gives the origin and puts the cursor there
Fallback_Origin(cs) ==
    [point |-> Pt(0, 0), cs |-> Moved(cs, TRUE, Pt(0, 0), Point3(R(0), R(0), R(0)))]

\* "Couldn't parse - return current position" (coordinates.js 323-324, and
\* 228-230, 253-255 for a tuple with a part that is no number)
Fallback(cs) == [point |-> cs.currentPosition, cs |-> cs]

\* CoordinateSystem.parseCoordinate: the point and the object afterwards
RECURSIVE parseCoordinate(_, _, _, _)
parseCoordinate(cs, lit, isRelative, updatePosition) ==
    CASE lit.kind = "calc" ->
           Let(parseCoordinate(cs, lit.left, FALSE, FALSE).point, LAMBDA leftPoint :
           Let(parseCoordinate(cs, lit.right, FALSE, FALSE).point, LAMBDA rightPoint :
           Let(IF lit.op = "+" THEN PointAdd(leftPoint, rightPoint)
               ELSE PointSubtract(leftPoint, rightPoint), LAMBDA calcPoint :
           Let(IF isRelative THEN PointAdd(calcPoint, cs.currentPosition)
               ELSE calcPoint, LAMBDA result :
               [point |-> result,
                cs |-> Moved(cs, updatePosition, result,
                             Point3(result.x, result.y, R(0)))]))))
      [] lit.kind = "polar" -> ParsePolar(cs, lit, isRelative, updatePosition)
      [] lit.kind = "tuple" /\ Len(lit.parts) \in {2, 3}
           /\ \A i \in 1..Len(lit.parts) : IsNumeric(lit.parts[i]) ->
           ParseTuple(cs, lit.parts, isRelative, updatePosition)
      [] lit.kind = "anchor" /\ IsName(lit.node) /\ MapHas(cs.nodes, lit.node.w) ->
           ParseAnchor(cs, lit, updatePosition)
      [] lit.kind = "name" /\ IsName(lit.name)
           /\ (MapHas(cs.nodes, lit.name.w) \/ MapHas(cs.namedCoordinates, lit.name.w)) ->
           ParseNamed(cs, lit, updatePosition)
      [] OTHER -> Fallback(cs)

\* What is left of the text after the prefix handling of parseCoordinateToken
\* (coordinates.js 505-518).  plus is the number of "+" characters in front:
\* "++" and "+" are cut off; a third "+" stays in the text, where it is
\* harmless in front of a number and makes every other form unreadable.
StripPrefix(plus, lit) ==
    IF plus <= 2 THEN lit
    ELSE IF lit.kind = "tuple" /\ Len(lit.parts) >= 1 /\ IsNumeric(lit.parts[1])
         THEN lit
         ELSE Other

\* parseCoordinateToken (coordinates.js 499-543)
parseCoordinateToken(plus, lit, cs) ==
    Let(plus >= 1, LAMBDA isRelative :
    Let(plus # 1, LAMBDA updatesPosition :
    Let(StripPrefix(plus, lit), LAMBDA coordString :
    Let(coordString.kind = "anchor" /\ IsName(coordString.node)
        /\ ~isRelative /\ MapHas(cs.nodes, coordString.node.w), LAMBDA isAnchorRef :
    Let(coordString.kind = "name" /\ IsName(coordString.name)
        /\ ~isRelative /\ MapHas(cs.nodes, coordString.name.w), LAMBDA isNodeRef :
    Let(parseCoordinate(cs, coordString, isRelative, updatesPosition), LAMBDA res :
        [point |-> res.point,
         cs |-> res.cs,
         isRelative |-> isRelative,
         updatesPosition |-> updatesPosition,
         nodeName |-> IF isNodeRef THEN coordString.name.w ELSE "",
         anchorNodeName |-> IF isAnchorRef THEN coordString.node.w ELSE "",
         anchorName |-> IF isAnchorRef THEN coordString.anchor ELSE ""]))))))


-----------------------------------------------------------------------------
(* getNodeBoundaryPoint, twice: coordinates.js 401-490, renderer.js 1326-1383 *)
(*                                                                           *)
(* Both normalise the direction, (nx, ny) = (dx, dy) / dist, and look for    *)
(* the parameter t with boundary = center + (nx, ny) * t.  dist is a square  *)
(* root; the model keeps s = t / dist instead, so that boundary = center +   *)
(* (dx, dy) * s: every comparison of the code (t > 0, |y at edge| <= hh,     *)
(* the minimum over the edges) reads the same on s, because dist > 0.        *)

RMinOf(S) == CHOOSE m \in S : \A q \in S : RLe(m, q)

\* the rectangle branch of CoordinateSystem.getNodeBoundaryPoint without
\* the test of the left edge
RectBoundaryCS_NoLeftEdge(center, width, height, target) ==
    Let(RSub(target.x, center.x), LAMBDA dx :
    Let(RSub(target.y, center.y), LAMBDA dy :
    Let(RHalf(width), LAMBDA hw :
    Let(RHalf(height), LAMBDA hh :
    Let(RDiv(hw, dx), LAMBDA sRight :
    Let(RDiv(hh, dy), LAMBDA sTop :
    Let(RDiv(RNeg(hh), dy), LAMBDA sBottom :
    Let({s \in (IF dx # R(0) THEN {sRight} ELSE {}) :
             RLt(R(0), s) /\ RLe(RAbs(RMul(dy, s)), hh)}
        \cup {s \in (IF dy # R(0) THEN {sTop, sBottom} ELSE {}) :
             RLt(R(0), s) /\ RLe(RAbs(RMul(dx, s)), hw)}, LAMBDA cand :
        IF cand = {} THEN center
        ELSE Point(RAdd(center.x, RMul(dx, RMinOf(cand))),
                   RAdd(center.y, RMul(dy, RMinOf(cand))))))))))))

\* the rectangle branch of CoordinateSystem.getNodeBoundaryPoint
\* (coordinates.js 437-489), for a target other than the centre
RectBoundaryCS(center, width, height, target) ==
    Let(RSub(target.x, center.x), LAMBDA dx :
    Let(RSub(target.y, center.y), LAMBDA dy :
    Let(RHalf(width), LAMBDA hw :
    Let(RHalf(height), LAMBDA hh :
    Let(RDiv(hw, dx), LAMBDA sRight :
    Let(RDiv(RNeg(hw), dx), LAMBDA sLeft :
    Let(RDiv(hh, dy), LAMBDA sTop :
    Let(RDiv(RNeg(hh), dy), LAMBDA sBottom :
    Let({s \in (IF dx # R(0) THEN {sRight, sLeft} ELSE {}) :
             RLt(R(0), s) /\ RLe(RAbs(RMul(dy, s)), hh)}
        \cup {s \in (IF dy # R(0) THEN {sTop, sBottom} ELSE {}) :
             RLt(R(0), s) /\ RLe(RAbs(RMul(dx, s)), hw)}, LAMBDA cand :
        IF cand = {} THEN center
        ELSE Point(RAdd(center.x, RMul(dx, RMinOf(cand))),
                   RAdd(center.y, RMul(dy, RMinOf(cand)))))))))))))

\* CoordinateSystem.getNodeBoundaryPoint for a rectangle node
\* (coordinates.js 401-420, 437-489); the nodes of this model are rectangles
CSBoundaryPoint(cs, nodeName, targetPoint) ==
    IF ~MapHas(cs.nodes, nodeName) THEN targetPoint
    ELSE Let(cs.nodes[nodeName], LAMBDA node :
             IF targetPoint = node.center THEN node.center
             ELSE RectBoundaryCS(node.center, node.width, node.height, targetPoint))

\* the rectangle branch of Renderer.getNodeBoundaryPoint (renderer.js 1362-1381)
RectBoundaryRenderer(center, width, height, target) ==
    Let(RSub(target.x, center.x), LAMBDA dx :
    Let(RSub(target.y, center.y), LAMBDA dy :
    Let(RHalf(width), LAMBDA hw :
    Let(RHalf(height), LAMBDA hh :
    Let((IF dx # R(0) THEN {RDiv(hw, RAbs(dx))} ELSE {})
        \cup (IF dy # R(0) THEN {RDiv(hh, RAbs(dy))} ELSE {}), LAMBDA cand :
        Point(RAdd(center.x, RMul(dx, RMinOf(cand))),
              RAdd(center.y, RMul(dy, RMinOf(cand)))))))))

\* Renderer.getNodeBoundaryPoint for a rectangle node (renderer.js 1326-1346,
\* 1362-1381); metrics is the nodeMetrics map
RendererBoundaryPoint(metrics, nodeName, nodeCenter, targetPoint) ==
    IF ~MapHas(metrics, nodeName) THEN nodeCenter
    ELSE Let(metrics[nodeName], LAMBDA m :
             IF targetPoint = m.center THEN m.center
             ELSE RectBoundaryRenderer(m.center, m.width, m.height, targetPoint))

-----------------------------------------------------------------------------
(* Tokens (the Lexer's output, renderer.js 1941-2239) and the Parser's       *)
(* token cursor (part_003 36-74).                                            *)
(*                                                                           *)
(* A token is [type, value].  The value of a COORDINATE token is a           *)
(* coordinate literal; of a COMMAND token the letters of the command name    *)
(* (a sequence, without the backslash); of a STRING token the brace content  *)
(* (see BraceText below).                                                    *)
(* A source position is the token's index in the token list.                 *)

Tok(type, value) == [type |-> type, value |-> value]
Cmd(name) == Tok("COMMAND", name)
Coord(lit) == Tok("COORDINATE", lit)
Ident(text) == Tok("IDENTIFIER", text)
Number(i) == Tok("NUMBER", i)
NullToken == [type |-> "null", value |-> "null"]

\* Brace content.  Text between braces is a string in the code.  The model
\* keeps what the parser can find in it: items is the text cut at its
\* top-level commas (each item a sequence of atoms), tokens is what the Lexer
\* makes of the text when it is parsed again as a \foreach body.
BraceText(items, tokens) == [items |-> items, tokens |-> tokens]
Str(text) == Tok("STRING", text)

\* new Parser(input), the token list standing for the Lexer's work
NewParser(tokens, coordSys, styles) ==
    [tokens |-> tokens, position |-> 1, coordSystem |-> coordSys,
     styles |-> styles, errors |-> <<>>]

peek(p) == IF p.position <= Len(p.tokens) THEN p.tokens[p.position] ELSE NullToken
PeekType(p) == peek(p).type
advance(p) == [p EXCEPT !.position = @ + 1]

ErrorAt(p, message) == [message |-> message, position |-> p.position]
PushError(p, message) == [p EXCEPT !.errors = Append(@, ErrorAt(p, message))]

\* expect(type): the token, or an error and null (ok = FALSE)
expect(p, type) ==
    IF PeekType(p) # type
    THEN [p |-> PushError(p, "Expected " \o type), ok |-> FALSE, token |-> NullToken]
    ELSE [p |-> advance(p), ok |-> TRUE, token |-> peek(p)]

\* match(type): the cursor afterwards; and a match that takes the token
\* whatever it is
match_Unchecked(p, type) == advance(p)
match(p, type) == IF PeekType(p) = type THEN advance(p) ELSE p
Matches(p, type) == PeekType(p) = type

\* while (this.match(PLUS)) coordValue += "+": how many, and the cursor after
RECURSIVE CountPlus(_)
CountPlus(p) ==
    IF PeekType(p) = "PLUS"
    THEN Let(CountPlus(advance(p)), LAMBDA r :
             [p |-> r.p, plus |-> r.plus + 1])
    ELSE [p |-> p, plus |-> 0]

-----------------------------------------------------------------------------
(* Option blocks (part_003 735-820).  An option is the text parseOptionsBlock *)
(* builds from the tokens between two commas, kept as its pieces: one piece  *)
(* per token ([s |-> text]), a STRING token giving a piece that also holds   *)
(* the brace content ([s |-> "{}", body |-> content]).                       *)

Piece(text) == [s |-> text]
Braced(content) == [s |-> "{}", body |-> content]
Opt(text) == <<Piece(text)>>

IsWordToken(type) ==
    type \in {"IDENTIFIER", "NODE", "AT", "TO", "AND", "CONTROLS", "CYCLE"}

IsUnit(token) ==
    token.type = "IDENTIFIER" /\ token.value \in {"mm", "cm", "pt", "em", "ex", "in"}

NeedsSpace(lastTokenType, token) ==
    \/ IsWordToken(lastTokenType) /\ token.type = "IDENTIFIER" /\ ~IsUnit(token)
    \/ IsWordToken(lastTokenType) /\ token.type = "NUMBER"
    \/ lastTokenType = "IDENTIFIER" /\ IsWordToken(token.type)
         /\ token.type # "IDENTIFIER"

\* the piece a token adds to the current option
TokenPiece(token) ==
    CASE token.type = "STRING" -> Braced(token.value)
      [] token.type = "NUMBER" -> [s |-> ToString(token.value), n |-> token.value]
      [] token.type = "EQUALS" -> Piece("=")
      [] token.type = "COORDINATE" -> [s |-> "()", lit |-> token.value]
      [] OTHER -> Piece(token.value)

\* the loop of parseOptionsBlock (part_003 746-793); the Lexer never emits
\* BRACE_START or BRACE_END, so depth stays 0
RECURSIVE OptionsLoop(_, _, _, _)
OptionsLoop(p, options, current, lastTokenType) ==
    IF PeekType(p) \in {"OPTION_END", "EOF"}
    THEN [p |-> p,
          options |-> IF current # <<>> THEN Append(options, current) ELSE options]
    ELSE Let(peek(p), LAMBDA token :
         Let(IF NeedsSpace(lastTokenType, token)
             THEN Append(current, Piece(" ")) ELSE current, LAMBDA spaced :
             IF token.type = "COMMA"
             THEN OptionsLoop(advance(p),
                      IF spaced # <<>> THEN Append(options, spaced) ELSE options,
                      <<>>, "null")
             ELSE OptionsLoop(advance(p), options,
                      Append(spaced, TokenPiece(token)), token.type)))

\* !opt.includes("=") && this.styles.has(opt)
IsStyleReference(styles, opt) ==
    /\ Len(opt) = 1
    /\ DOMAIN opt[1] = {"s"}
    /\ MapHas(styles, opt[1].s)

\* expandStyleReferences (part_003 805-820)
RECURSIVE expandStyleReferences(_, _)
expandStyleReferences(styles, options) ==
    IF options = <<>> THEN <<>>
    ELSE Let(Head(options), LAMBDA opt :
         Let(IF IsStyleReference(styles, opt)
             THEN expandStyleReferences(styles, styles[opt[1].s])
             ELSE <<opt>>, LAMBDA first :
             first \o expandStyleReferences(styles, Tail(options))))

\* parseOptionsBlock (part_003 735-803): the cursor after the block and the
\* expanded options
parseOptionsBlock(p) ==
    IF PeekType(p) # "OPTION_START" THEN [p |-> p, options |-> <<>>]
    ELSE Let(OptionsLoop(advance(p), <<>>, <<>>, "null"), LAMBDA r :
             [p |-> match(r.p, "OPTION_END"),
              options |-> expandStyleReferences(p.styles, r.options)])

\* parseOptionKeyValue (part_003 1544-1554): does the text in front of the
\* first "=" (the whole text when there is none) read key, for a one-word key
OptKeyIs(opt, key) ==
    /\ Len(opt) >= 1
    /\ opt[1].s = key
    /\ (Len(opt) = 1 \/ opt[2].s = "=")

\* parseFloat of the value of parseOptionKeyValue: the number that starts
\* the text after "=", NaN without one (and for the null of a bare key)
NaN == "NaN"
OptFloat(opt) ==
    IF Len(opt) >= 3 /\ "n" \in DOMAIN opt[3] THEN opt[3].n ELSE NaN

\* for (const opt of options) if (key === ...) x = parseFloat(value):
\* the last option with the key decides; some = FALSE leaves x as it was
NoNumber == [some |-> FALSE, n |-> 0]

RECURSIVE OptionNumber(_, _)
OptionNumber(options, key) ==
    IF options = <<>> THEN NoNumber
    ELSE Let(options[Len(options)], LAMBDA opt :
             IF OptKeyIs(opt, key)
             THEN [some |-> TRUE, n |-> OptFloat(opt)]
             ELSE OptionNumber(SubSeq(options, 1, Len(options) - 1), key))

\* the defaults of parseNodeOptions (part_003 598-600)
DefaultWidth == R(1)
DefaultHeight == <<1, 2>>
DefaultInnerSep == <<3333, 10000>>

-----------------------------------------------------------------------------
(* Path segments (part_003 822-1361, 1499-1542).  Every operator returns the *)
(* parser afterwards (p), and thrown = TRUE when the JavaScript code raises  *)
(* a TypeError at that point: p is then the parser at the throw.             *)

NoSegment == [type |-> "none"]
NoName == ""

\* the text of a COORDINATE token used as a name (token.value)
\* the characters of a name, put together
RECURSIVE Join(_)
Join(chars) == IF chars = <<>> THEN "" ELSE Head(chars) \o Join(Tail(chars))

AtomText(atom) ==
    CASE atom.t = "word" -> atom.w
      [] atom.t = "num" -> ToString(atom.v)
      [] atom.t = "dec" -> ToString(atom.n) \o "/" \o ToString(atom.d)
      [] atom.t = "numunit" -> ToString(atom.v) \o atom.u
      [] OTHER -> "\\" \o Join(atom.w)

LitText(lit) ==
    CASE lit.kind = "name" -> AtomText(lit.name)
      [] lit.kind = "anchor" -> AtomText(lit.node) \o "." \o lit.anchor
      [] lit.kind = "tuple" -> "<tuple>"
      [] lit.kind = "polar" -> "<polar>"
      [] lit.kind = "calc" -> "<calc>"
      [] OTHER -> "?"

\* !value.includes(",") && !value.includes(":")
LooksLikeName(lit) == lit.kind \in {"name", "anchor", "other"}

\* parseFloat on the text of an atom: the number it starts with, or NaN
ParseFloatAtom(atom) ==
    CASE atom.t \in {"num", "numunit"} -> [some |-> TRUE, n |-> R(atom.v)]
      [] atom.t = "dec" -> [some |-> TRUE, n |-> Rat(atom.n, atom.d)]
      [] OTHER -> NoNumber

\* parseFloat on the text of a COORDINATE token
ParseFloatLit(lit) ==
    CASE lit.kind = "name" -> ParseFloatAtom(lit.name)
      [] lit.kind = "tuple" /\ Len(lit.parts) >= 1 -> ParseFloatAtom(lit.parts[1])
      [] lit.kind = "polar" -> [some |-> TRUE, n |-> R(lit.angle)]
      [] OTHER -> NoNumber

\* "Adjust endpoints for node references" (part_003 986-999, 1147-1157,
\* 1197-1207, 927-940).  getNodeBoundaryPoint reads targetPoint.x: with a
\* registered node and a null target it throws.
AdjustEndpoints(cs, fromPoint, fromNodeName, point, nodeName) ==
    CASE fromNodeName # NoName /\ nodeName # NoName ->
           [thrown |-> FALSE,
            from |-> CSBoundaryPoint(cs, fromNodeName, point),
            to |-> CSBoundaryPoint(cs, nodeName, fromPoint)]
      [] fromNodeName # NoName ->
           [thrown |-> FALSE,
            from |-> CSBoundaryPoint(cs, fromNodeName, point),
            to |-> point]
      [] nodeName # NoName ->
           IF fromPoint = Null
           THEN [thrown |-> TRUE, from |-> fromPoint, to |-> point]
           ELSE [thrown |-> FALSE, from |-> fromPoint,
                 to |-> CSBoundaryPoint(cs, nodeName, fromPoint)]
      [] OTHER -> [thrown |-> FALSE, from |-> fromPoint, to |-> point]

SegResult(p, segment, toNodeName, thrown) ==
    [p |-> p, segment |-> segment, toNodeName |-> toNodeName, thrown |-> thrown]

\* a line segment with its two ends exchanged
LineSegment_Swapped(from, to, options, edgeLabel, fromNodeName, toNodeName) ==
    [type |-> "LINE_SEGMENT", from |-> to, to |-> from, options |-> options,
     edgeLabel |-> edgeLabel, fromNodeName |-> toNodeName,
     toNodeName |-> fromNodeName]

\* new ASTNode(NodeType.LINE_SEGMENT, {...}) of parseLineTo (part_003 1002-1009)
LineSegment(from, to, options, edgeLabel, fromNodeName, toNodeName) ==
    [type |-> "LINE_SEGMENT", from |-> from, to |-> to, options |-> options,
     edgeLabel |-> edgeLabel, fromNodeName |-> fromNodeName,
     toNodeName |-> toNodeName]

\* the provisional node options of parseNodeOptions (part_003 594-675) for
\* an option list without shape or size keys: the defaults
NodeShape(options) ==
    IF \E i \in 1..Len(options) : options[i] = Opt("circle")
    THEN "circle" ELSE "rectangle"

\* parseEdgeLabel (part_003 1017-1051): node [options] (name) {text}
parseEdgeLabel(p0) ==
    Let(parseOptionsBlock(advance(p0)), LAMBDA o :
    Let(PeekType(o.p) = "COORDINATE" /\ LooksLikeName(peek(o.p).value), LAMBDA named :
    Let(IF named THEN LitText(peek(o.p).value) ELSE NoName, LAMBDA name :
    Let(IF named THEN advance(o.p) ELSE o.p, LAMBDA p1 :
    Let(PeekType(p1) = "STRING", LAMBDA hasText :
    Let(IF hasText THEN peek(p1).value ELSE BraceText(<<>>, <<>>), LAMBDA text :
    Let(IF hasText THEN advance(p1) ELSE p1, LAMBDA p2 :
        [p |-> p2, label |-> [name |-> name, text |-> text, options |-> o.options]])))))))

NoLabel == [name |-> NoName]

\* parseLineTo (part_003 956-1012)
parseLineTo(p0, fromPoint, fromNodeName) ==
    Let(parseOptionsBlock(advance(p0)), LAMBDA o :
        IF PeekType(o.p) = "CYCLE"
        THEN SegResult(advance(o.p), [type |-> "CYCLE", from |-> fromPoint],
                       NoName, FALSE)
        ELSE
        Let(IF PeekType(o.p) = "NODE" THEN parseEdgeLabel(o.p)
            ELSE [p |-> o.p, label |-> NoLabel], LAMBDA e :
        Let(CountPlus(e.p), LAMBDA c :
        Let(expect(c.p, "COORDINATE"), LAMBDA x :
            IF ~x.ok THEN SegResult(x.p, NoSegment, NoName, FALSE)
            ELSE
            Let(parseCoordinateToken(c.plus, x.token.value, x.p.coordSystem), LAMBDA res :
            Let([x.p EXCEPT !.coordSystem = res.cs], LAMBDA p1 :
            Let(AdjustEndpoints(res.cs, fromPoint, fromNodeName,
                                res.point, res.nodeName), LAMBDA adj :
                IF adj.thrown THEN SegResult(p1, NoSegment, NoName, TRUE)
                ELSE SegResult(p1,
                         LineSegment(adj.from, adj.to, o.options, e.label,
                                     fromNodeName, res.nodeName),
                         res.nodeName, FALSE))))))))

\* parseCurveTo (part_003 1115-1168)
parseCurveTo(p0, fromPoint, fromNodeName) ==
    Let(advance(p0), LAMBDA p1 :
        IF PeekType(p1) # "CONTROLS" THEN SegResult(p1, NoSegment, NoName, FALSE)
        ELSE
        Let(expect(advance(p1), "COORDINATE"), LAMBDA x1 :
            IF ~x1.ok THEN SegResult(x1.p, NoSegment, NoName, FALSE)
            ELSE
            Let(parseCoordinateToken(0, x1.token.value, x1.p.coordSystem), LAMBDA control1 :
            Let([x1.p EXCEPT !.coordSystem = control1.cs], LAMBDA p2 :
            Let(PeekType(p2) = "AND", LAMBDA hasAnd :
            Let(IF hasAnd THEN expect(advance(p2), "COORDINATE")
                ELSE [p |-> p2, ok |-> FALSE, token |-> NullToken], LAMBDA x2 :
            Let(IF x2.ok
                THEN parseCoordinateToken(0, x2.token.value,
                                          x2.p.coordSystem)
                ELSE [control1 EXCEPT !.cs = x2.p.coordSystem], LAMBDA control2 :
            Let([x2.p EXCEPT !.coordSystem = control2.cs], LAMBDA p3 :
                IF PeekType(p3) # "CURVE_TO"
                THEN SegResult(p3, NoSegment, NoName, FALSE)
                ELSE
                Let(expect(advance(p3), "COORDINATE"), LAMBDA x3 :
                    IF ~x3.ok THEN SegResult(x3.p, NoSegment, NoName, FALSE)
                    ELSE
                    Let(parseCoordinateToken(0, x3.token.value,
                                             x3.p.coordSystem), LAMBDA end :
                    Let([x3.p EXCEPT !.coordSystem = end.cs], LAMBDA p4 :
                    Let(AdjustEndpoints(end.cs, fromPoint, fromNodeName,
                                        end.point, end.nodeName), LAMBDA adj :
                        IF adj.thrown THEN SegResult(p4, NoSegment, NoName, TRUE)
                        ELSE SegResult(p4,
                                 [type |-> "CURVE_SEGMENT", from |-> adj.from,
                                  control1 |-> control1.point,
                                  control2 |-> control2.point, to |-> adj.to],
                                 end.nodeName, FALSE)))))))))))))

\* a control point of the curve of "to": base + distance * (cos, sin)(angle)
\* with distance a third of |to - from| (part_003 1211-1223).  The distance is
\* a square root; the model keeps the expression, not its value.
ControlPoint(base, from, to, angle) ==
    [base |-> base, angle |-> angle, third |-> <<from, to>>]

\* parseToOperation (part_003 1170-1246)
parseToOperation(p0, fromPoint, fromNodeName) ==
    Let(parseOptionsBlock(advance(p0)), LAMBDA o :
    Let(OptionNumber(o.options, "out"), LAMBDA outAngle :
    Let(OptionNumber(o.options, "in"), LAMBDA inAngle :
    Let(CountPlus(o.p), LAMBDA c :
    Let(expect(c.p, "COORDINATE"), LAMBDA x :
        IF ~x.ok THEN SegResult(x.p, NoSegment, NoName, FALSE)
        ELSE
        Let(parseCoordinateToken(c.plus, x.token.value, x.p.coordSystem), LAMBDA res :
        Let([x.p EXCEPT !.coordSystem = res.cs], LAMBDA p1 :
        Let(AdjustEndpoints(res.cs, fromPoint, fromNodeName,
                            res.point, res.nodeName), LAMBDA adj :
            IF adj.thrown THEN SegResult(p1, NoSegment, NoName, TRUE)
            ELSE IF outAngle.some /\ inAngle.some
            THEN IF adj.from = Null
                 THEN SegResult(p1, NoSegment, NoName, TRUE)
                 ELSE SegResult(p1,
                          [type |-> "CURVE_SEGMENT", from |-> adj.from,
                           control1 |-> ControlPoint(adj.from, adj.from, adj.to,
                                                     outAngle.n),
                           control2 |-> ControlPoint(adj.to, adj.from, adj.to,
                                                     inAngle.n),
                           to |-> adj.to],
                          res.nodeName, FALSE)
            ELSE SegResult(p1,
                     [type |-> "LINE_SEGMENT", from |-> adj.from, to |-> adj.to,
                      options |-> o.options, fromNodeName |-> fromNodeName,
                      toNodeName |-> res.nodeName],
                     res.nodeName, FALSE)))))))))

\* parseCircle (part_003 1248-1274)
parseCircle(p0, fromPoint) ==
    Let(parseOptionsBlock(advance(p0)), LAMBDA o :
    Let(OptionNumber(o.options, "radius"), LAMBDA fromOptions :
    Let(PeekType(o.p) = "COORDINATE", LAMBDA hasShort :
    Let(IF hasShort THEN ParseFloatLit(peek(o.p).value) ELSE NoNumber, LAMBDA parsed :
    Let(IF hasShort THEN advance(o.p) ELSE o.p, LAMBDA p1 :
        SegResult(p1,
            [type |-> "CIRCLE", center |-> fromPoint,
             radius |-> IF parsed.some THEN parsed.n
                        ELSE IF ~fromOptions.some THEN R(1)
                        ELSE IF fromOptions.n = NaN THEN NaN
                        ELSE R(fromOptions.n)],
            NoName, FALSE))))))

\* the same for a key of several words, as "start angle": words holds the
\* pieces of the key
OptKeyWordsAre(opt, words) ==
    /\ Len(opt) >= Len(words)
    /\ \A i \in 1..Len(words) : opt[i].s = words[i]
    /\ (Len(opt) = Len(words) \/ opt[Len(words) + 1].s = "=")

\* x = parseFloat(value) for the last option with the key: isNaN when the
\* value starts with no number, some = FALSE when no option has the key
RECURSIVE OptionFloat(_, _)
OptionFloat(options, words) ==
    IF options = <<>> THEN [some |-> FALSE, isNaN |-> FALSE, n |-> 0]
    ELSE Let(options[Len(options)], LAMBDA opt :
         Let(Len(words) + 2, LAMBDA at :
             IF OptKeyWordsAre(opt, words)
             THEN IF Len(opt) >= at /\ "n" \in DOMAIN opt[at]
                  THEN [some |-> TRUE, isNaN |-> FALSE, n |-> opt[at].n]
                  ELSE [some |-> TRUE, isNaN |-> TRUE, n |-> 0]
             ELSE OptionFloat(SubSeq(options, 1, Len(options) - 1), words)))

\* a number option of parseArc: the default without the key, else the
\* parsed number or NaN
ArcNumber(found, default) ==
    IF ~found.some THEN default
    ELSE IF found.isNaN THEN NaN ELSE R(found.n)

\* rx || radius: null, 0 and NaN are falsy
OrRadius(found, radius) ==
    IF ~found.some \/ found.isNaN \/ found.n = 0 THEN radius ELSE R(found.n)

\* parseArc (part_003 1327-1362).  The (start:end:radius) shorthand needs two
\* colons; the coordinate texts of this model have at most one, so a
\* coordinate after arc is consumed and changes nothing.
parseArc(p0, fromPoint) ==
    Let(parseOptionsBlock(advance(p0)), LAMBDA o :
    Let(ArcNumber(OptionFloat(o.options, <<"radius">>), R(1)), LAMBDA radius :
        SegResult(IF PeekType(o.p) = "COORDINATE" THEN advance(o.p) ELSE o.p,
            [type |-> "ARC_SEGMENT", start |-> fromPoint,
             startAngle |-> ArcNumber(OptionFloat(o.options, <<"start", " ", "angle">>), R(0)),
             endAngle |-> ArcNumber(OptionFloat(o.options, <<"end", " ", "angle">>), R(90)),
             radius |-> radius,
             rx |-> OrRadius(OptionFloat(o.options, <<"x", " ", "radius">>), radius),
             ry |-> OrRadius(OptionFloat(o.options, <<"y", " ", "radius">>), radius)],
            NoName, FALSE)))

\* parseRectangle (part_003 1305-1324)
parseRectangle(p0, fromPoint) ==
    Let(CountPlus(advance(p0)), LAMBDA c :
    Let(expect(c.p, "COORDINATE"), LAMBDA x :
        IF ~x.ok THEN SegResult(x.p, NoSegment, NoName, FALSE)
        ELSE Let(parseCoordinateToken(c.plus, x.token.value, x.p.coordSystem), LAMBDA res :
                 SegResult([x.p EXCEPT !.coordSystem = res.cs],
                     [type |-> "RECTANGLE", from |-> fromPoint, to |-> res.point],
                     NoName, FALSE))))

\* parseGrid (part_003 1363-1391); the NaN of a step without a number is
\* held as 0/0
parseGrid(p0, fromPoint) ==
    Let(parseOptionsBlock(advance(p0)), LAMBDA o :
    Let(CountPlus(o.p), LAMBDA c :
    Let(expect(c.p, "COORDINATE"), LAMBDA x :
    Let(OptionFloat(o.options, <<"step">>), LAMBDA found :
        IF ~x.ok THEN SegResult(x.p, NoSegment, NoName, FALSE)
        ELSE Let(parseCoordinateToken(c.plus, x.token.value, x.p.coordSystem), LAMBDA res :
                 SegResult([x.p EXCEPT !.coordSystem = res.cs],
                     [type |-> "GRID", from |-> fromPoint, to |-> res.point,
                      step |-> IF ~found.some THEN R(1)
                               ELSE IF found.isNaN THEN <<0, 0>> ELSE R(found.n)],
                     NoName, FALSE))))))

\* parseInlineNode (part_003 1499-1542).  calculateAnchors reads center.x:
\* a named node on a path without a current point throws.
parseInlineNode(p0, fromPoint) ==
    Let(parseOptionsBlock(advance(p0)), LAMBDA o :
    Let(PeekType(o.p) = "COORDINATE" /\ LooksLikeName(peek(o.p).value), LAMBDA named :
    Let(IF named THEN LitText(peek(o.p).value) ELSE NoName, LAMBDA name :
    Let(IF named THEN advance(o.p) ELSE o.p, LAMBDA p1 :
    Let(PeekType(p1) = "STRING", LAMBDA hasText :
    Let(IF hasText THEN peek(p1).value ELSE BraceText(<<>>, <<>>), LAMBDA text :
    Let(IF hasText THEN advance(p1) ELSE p1, LAMBDA p2 :
    Let(NodeShape(o.options), LAMBDA shape :
        IF name # NoName /\ fromPoint = Null
        THEN SegResult(p2, NoSegment, NoName, TRUE)
        ELSE SegResult(
                 IF name = NoName THEN p2
                 ELSE [p2 EXCEPT !.coordSystem =
                          registerNode(@, name, fromPoint,
                              calculateAnchors(fromPoint, shape, DefaultWidth,
                                               DefaultHeight),
                              shape, DefaultWidth, DefaultHeight)],
                 [type |-> "NODE", name |-> name, position |-> fromPoint,
                  text |-> text, inline |-> TRUE, shape |-> shape,
                  width |-> DefaultWidth, height |-> DefaultHeight, innerSep |-> DefaultInnerSep,
                  options |-> o.options],
                 NoName, FALSE)))))))))

\* the two coordinate cases of parsePathSegment (part_003 905-949)
parsePlusSegment(p0, fromPoint) ==
    Let(advance(p0), LAMBDA p1 :
    Let(PeekType(p1) = "PLUS", LAMBDA isDouble :
    Let(match(p1, "PLUS"), LAMBDA p2 :
        IF PeekType(p2) # "COORDINATE" THEN SegResult(p2, NoSegment, NoName, FALSE)
        ELSE Let(parseCoordinateToken(IF isDouble THEN 2 ELSE 1,
                                      peek(p2).value, p2.coordSystem), LAMBDA res :
                 SegResult([advance(p2) EXCEPT !.coordSystem = res.cs],
                     [type |-> "LINE_SEGMENT", from |-> fromPoint, to |-> res.point],
                     NoName, FALSE)))))

parseBareCoordinate(p0, fromPoint, fromNodeName) ==
    Let(parseCoordinateToken(0, peek(p0).value, p0.coordSystem), LAMBDA res :
    Let([advance(p0) EXCEPT !.coordSystem = res.cs], LAMBDA p1 :
    Let(AdjustEndpoints(res.cs, fromPoint, fromNodeName, res.point,
                        res.nodeName), LAMBDA adj :
        IF adj.thrown THEN SegResult(p1, NoSegment, NoName, TRUE)
        ELSE SegResult(p1,
                 [type |-> "LINE_SEGMENT", from |-> adj.from, to |-> adj.to,
                  fromNodeName |-> fromNodeName, toNodeName |-> res.nodeName],
                 res.nodeName, FALSE))))

\* parsePathSegment (part_003 865-954).  The tokens of this model include no
\* ellipse, and the Lexer has no PLOT token type.
parsePathSegment(p, fromPoint, fromNodeName) ==
    CASE PeekType(p) = "LINE_TO" -> parseLineTo(p, fromPoint, fromNodeName)
      [] PeekType(p) = "CURVE_TO" -> parseCurveTo(p, fromPoint, fromNodeName)
      [] PeekType(p) = "TO" -> parseToOperation(p, fromPoint, fromNodeName)
      [] PeekType(p) = "CIRCLE" -> parseCircle(p, fromPoint)
      [] PeekType(p) = "RECTANGLE" -> parseRectangle(p, fromPoint)
      [] PeekType(p) = "ARC" -> parseArc(p, fromPoint)
      [] PeekType(p) = "GRID" -> parseGrid(p, fromPoint)
      [] PeekType(p) = "CYCLE" ->
           SegResult(advance(p), [type |-> "CYCLE", from |-> fromPoint], NoName, FALSE)
      [] PeekType(p) = "NODE" -> parseInlineNode(p, fromPoint)
      [] PeekType(p) = "PLUS" -> parsePlusSegment(p, fromPoint)
      [] PeekType(p) = "COORDINATE" -> parseBareCoordinate(p, fromPoint, fromNodeName)
      [] OTHER -> SegResult(p, NoSegment, NoName, FALSE)

\* the loop of parsePath (part_003 838-851)
RECURSIVE PathLoop(_, _, _, _)
PathLoop(p, segments, firstPoint, firstNodeName) ==
    IF PeekType(p) \in {"SEMICOLON", "EOF"}
    THEN [p |-> p, segments |-> segments, thrown |-> FALSE]
    ELSE Let(parsePathSegment(p, firstPoint, firstNodeName), LAMBDA r :
             IF r.thrown THEN [p |-> r.p, segments |-> segments, thrown |-> TRUE]
             ELSE IF r.segment = NoSegment
             THEN [p |-> r.p, segments |-> segments, thrown |-> FALSE]
             ELSE IF "to" \in DOMAIN r.segment /\ r.segment.to # Null
             THEN PathLoop(r.p, Append(segments, r.segment), r.segment.to,
                           r.toNodeName)
             ELSE PathLoop(r.p, Append(segments, r.segment), firstPoint, NoName))

\* parsePath without the reset of the cursor
parsePath_NoReset(p1) ==
    Let(PeekType(p1) = "COORDINATE", LAMBDA hasFirst :
    Let(parseCoordinateToken(0, peek(p1).value, p1.coordSystem), LAMBDA res :
    Let(IF hasFirst THEN [advance(p1) EXCEPT !.coordSystem = res.cs] ELSE p1, LAMBDA p2 :
        PathLoop(p2, <<>>,
                 IF hasFirst THEN res.point ELSE Null,
                 IF hasFirst THEN res.nodeName ELSE NoName))))

\* parsePath (part_003 822-854)
parsePath(p0) ==
    Let([p0 EXCEPT !.coordSystem = reset(@)], LAMBDA p1 :
    Let(PeekType(p1) = "COORDINATE", LAMBDA hasFirst :
    Let(parseCoordinateToken(0, peek(p1).value, p1.coordSystem), LAMBDA res :
    Let(IF hasFirst THEN [advance(p1) EXCEPT !.coordSystem = res.cs] ELSE p1, LAMBDA p2 :
        PathLoop(p2, <<>>,
                 IF hasFirst THEN res.point ELSE Null,
                 IF hasFirst THEN res.nodeName ELSE NoName)))))

-----------------------------------------------------------------------------
(* Commands (part_003 76-427, 706-733) *)

cmdDraw == <<"d", "r", "a", "w">>
cmdFill == <<"f", "i", "l", "l">>
cmdFilldraw == cmdFill \o cmdDraw
cmdPath == <<"p", "a", "t", "h">>
cmdNode == <<"n", "o", "d", "e">>
cmdCoordinate == <<"c", "o", "o", "r", "d", "i", "n", "a", "t", "e">>
cmdBegin == <<"b", "e", "g", "i", "n">>
cmdEnd == <<"e", "n", "d">>
cmdForeach == <<"f", "o", "r", "e", "a", "c", "h">>

EOFToken == Tok("EOF", "null")

\* a text that is one word
TextOf(word) == BraceText(<<<<Word(word)>>>>, <<Ident(word)>>)
NoText == BraceText(<<>>, <<>>)

CmdResult(p, out, thrown) == [p |-> p, out |-> out, thrown |-> thrown]

\* a draw command that is given up when its path stopped early
parseDrawCommand_AllOrNothing(p0, type) ==
    Let(parseOptionsBlock(advance(p0)), LAMBDA o :
    Let(parsePath(o.p), LAMBDA r :
        IF r.thrown THEN CmdResult(r.p, <<>>, TRUE)
        ELSE IF PeekType(r.p) # "SEMICOLON" THEN CmdResult(r.p, <<>>, FALSE)
        ELSE CmdResult(advance(r.p),
                       <<[type |-> type, segments |-> r.segments,
                          options |-> o.options]>>,
                       FALSE)))

\* parseDrawCommand (part_003 340-353); style is parseOptions(options), a
\* function of the options kept here
parseDrawCommand(p0, type) ==
    Let(parseOptionsBlock(advance(p0)), LAMBDA o :
    Let(parsePath(o.p), LAMBDA r :
        IF r.thrown THEN CmdResult(r.p, <<>>, TRUE)
        ELSE CmdResult(match(r.p, "SEMICOLON"),
                       <<[type |-> type, segments |-> r.segments,
                          options |-> o.options]>>,
                       FALSE)))

\* the keys parsePositioningOptions (part_003 433-563) looks for
Directions == {"above", "below", "left", "right"}
HasDirection(options) ==
    \E i \in 1..Len(options) : options[i][1].s \in Directions

\* the next token is a coordinate that reads as a name: no comma, no colon
\* (part_003 364-367, 377-379)
PeeksName(p) == PeekType(p) = "COORDINATE" /\ LooksLikeName(peek(p).value)

\* "at (coord)" (part_003 385-393, 716-723): the position, (0,0) without it
parseAt(p) ==
    IF PeekType(p) # "AT" THEN [p |-> p, position |-> Pt(0, 0)]
    ELSE Let(expect(advance(p), "COORDINATE"), LAMBDA x :
         IF ~x.ok THEN [p |-> x.p, position |-> Pt(0, 0)]
         ELSE Let(parseCoordinateToken(0, x.token.value, x.p.coordSystem), LAMBDA res :
              [p |-> [x.p EXCEPT !.coordSystem = res.cs], position |-> res.point]))

\* parseNodeCommand (part_003 355-427), for options that place the node in
\* no direction and give it no shape or size: parsePositioningOptions
\* returns null and parseNodeOptions the defaults
parseNodeCommand(p0) ==
    Let(advance(p0), LAMBDA p1 :
    Let(parseOptionsBlock(IF PeeksName(p1) THEN advance(p1) ELSE p1), LAMBDA o :
    Let(CASE PeeksName(p1) -> LitText(peek(p1).value)
          [] PeeksName(o.p) -> LitText(peek(o.p).value)
          [] OTHER -> NoName, LAMBDA name :
    Let(parseAt(IF ~PeeksName(p1) /\ PeeksName(o.p) THEN advance(o.p) ELSE o.p),
        LAMBDA at :
    Let(IF PeekType(at.p) = "STRING"
        THEN [p |-> advance(at.p), text |-> peek(at.p).value]
        ELSE [p |-> at.p, text |-> NoText], LAMBDA t :
    Let(match(t.p, "SEMICOLON"), LAMBDA p5 :
        CmdResult(
            IF name = NoName THEN p5
            ELSE [p5 EXCEPT !.coordSystem =
                     registerNode(@, name, at.position,
                         calculateAnchors(at.position, NodeShape(o.options),
                                          DefaultWidth, DefaultHeight),
                         NodeShape(o.options), DefaultWidth, DefaultHeight)],
            <<[type |-> "NODE", name |-> name, position |-> at.position,
               text |-> t.text, shape |-> NodeShape(o.options),
               width |-> DefaultWidth, height |-> DefaultHeight,
               innerSep |-> DefaultInnerSep, options |-> o.options]>>,
            FALSE)))))))

\* parseCoordinateCommand (part_003 706-733)
parseCoordinateCommand(p0) ==
    Let(advance(p0), LAMBDA p1 :
    Let(IF PeekType(p1) = "COORDINATE" THEN LitText(peek(p1).value) ELSE NoName,
        LAMBDA name :
    Let(parseAt(IF PeekType(p1) = "COORDINATE" THEN advance(p1) ELSE p1),
        LAMBDA at :
    Let(match(at.p, "SEMICOLON"), LAMBDA p3 :
        CmdResult(
            IF name = NoName THEN p3
            ELSE [p3 EXCEPT !.coordSystem =
                     setNamedCoordinate(@, name, at.position)],
            <<[type |-> "COORDINATE", name |-> name, position |-> at.position]>>,
            FALSE)))))

\* one comma-free item of a style value as an option (parseStyleValue,
\* part_003 310-338)
ItemOption(item) == [i \in 1..Len(item) |-> Piece(AtomText(item[i]))]

\* the punctuation a piece of an option can be
Punctuation == {"/", ".", "=", " ", ":", "+", "--", "..", ";", "{}", "()"}

\* opt.match(/^([a-zA-Z][a-zA-Z0-9_-]*)\/\.style\s*=\s*\{(.+)\}$/s)
IsStyleDefinition(opt) ==
    /\ Len(opt) = 6
    /\ DOMAIN opt[1] = {"s"} /\ opt[1].s \notin Punctuation
    /\ opt[2] = Piece("/") /\ opt[3] = Piece(".") /\ opt[4] = Piece("style")
    /\ opt[5] = Piece("=")
    /\ "body" \in DOMAIN opt[6] /\ opt[6].body.items # <<>>

\* parsePictureOptions (part_003 267-308): the style registry afterwards.
\* nodeDistance and defaultFontSize, which it also sets, are read by the
\* positioning and font code only.
RECURSIVE parsePictureOptions(_, _)
parsePictureOptions(styles, options) ==
    IF options = <<>> THEN styles
    ELSE Let(Head(options), LAMBDA opt :
         Let(opt[6].body.items, LAMBDA items :
             parsePictureOptions(
                 IF IsStyleDefinition(opt)
                 THEN MapSet(styles, opt[1].s,
                             [i \in 1..Len(items) |-> ItemOption(items[i])])
                 ELSE styles,
                 Tail(options))))

\* parseBegin (part_003 141-155)
parseBegin(p0) ==
    Let(advance(p0), LAMBDA p1 :
        IF PeekType(p1) # "STRING" THEN CmdResult(p1, <<>>, FALSE)
        ELSE IF peek(p1).value # TextOf("tikzpicture")
        THEN CmdResult(advance(p1), <<>>, FALSE)
        ELSE Let(parseOptionsBlock(advance(p1)), LAMBDA o :
                 CmdResult([o.p EXCEPT !.styles = parsePictureOptions(@, o.options)],
                           <<>>, FALSE)))

\* parseEnd (part_003 157-166)
parseEnd(p0) == CmdResult(match(advance(p0), "STRING"), <<>>, FALSE)

-----------------------------------------------------------------------------
(* \foreach (part_003 173-265).  The code replaces the variable in the body  *)
(* text and runs the Lexer on the result.  Here the body is the token list   *)
(* of its text, and the replacement is made in every place of a token where  *)
(* a backslash can stand: a COMMAND token, a command inside the text of a    *)
(* COORDINATE token, and the same inside brace content.  A command in a body *)
(* of this model is followed by a blank or a bracket, so the text put in its *)
(* place does not run into the next token.                                   *)

IsPrefixSeq(a, b) == Len(a) <= Len(b) /\ SubSeq(b, 1, Len(a)) = a
Rest(a, b) == SubSeq(b, Len(a) + 1, Len(b))

\* readIdentifier's keyword table (renderer.js 2073-2087); ellipse is in no
\* text of this model
KeywordType(text) ==
    CASE text = "to" -> "TO"
      [] text = "cycle" -> "CYCLE"
      [] text = "circle" -> "CIRCLE"
      [] text = "rectangle" -> "RECTANGLE"
      [] text = "arc" -> "ARC"
      [] text = "grid" -> "GRID"
      [] text = "node" -> "NODE"
      [] text = "at" -> "AT"
      [] text = "and" -> "AND"
      [] text = "controls" -> "CONTROLS"
      [] OTHER -> "IDENTIFIER"

Identifier(text) == Tok(KeywordType(text), text)

\* the value of one item of the list for a single variable (part_003
\* 220-223): parseFloat reads the number a text starts with, and the text
\* itself stays only when there is none.  String(value) is then put in the
\* body: the value as an atom.
ForeachValue(item) ==
    IF item[1].t \in {"num", "numunit"} THEN Num(item[1].v)
    ELSE IF item[1].t = "dec"
    THEN Let(Rat(item[1].n, item[1].d), LAMBDA r :
             IF r[2] = 1 THEN Num(r[1]) ELSE Dec(r[1], r[2]))
    ELSE IF Len(item) = 1 THEN item[1]
    ELSE Word(AtomText(item[1]) \o "/" \o AtomText(item[2]))

\* the text of the value followed by more letters
Glue(val, rest) ==
    IF rest = <<>> THEN val
    ELSE CASE val.t = "num" -> NumUnit(val.v, Join(rest))
           [] val.t = "dec" -> Word(AtomText(val) \o Join(rest))
           [] val.t = "numunit" -> NumUnit(val.v, val.u \o Join(rest))
           [] val.t = "word" -> Word(val.w \o Join(rest))
           [] OTHER -> Var(val.w \o rest)

\* substituted.replace(varRegex, String(value)) in the text of an atom
SubstAtom(atom, var, val) ==
    IF atom.t = "var" /\ IsPrefixSeq(var, atom.w)
    THEN Glue(val, Rest(var, atom.w))
    ELSE atom

\* ... in the text of a COORDINATE token
RECURSIVE SubstLit(_, _, _)
SubstLit(lit, var, val) ==
    CASE lit.kind = "tuple" ->
           Tuple([i \in 1..Len(lit.parts) |-> SubstAtom(lit.parts[i], var, val)])
      [] lit.kind = "name" -> Name(SubstAtom(lit.name, var, val))
      [] lit.kind = "anchor" -> Anchor(SubstAtom(lit.node, var, val), lit.anchor)
      [] lit.kind = "calc" ->
           Calc(SubstLit(lit.left, var, val), lit.op, SubstLit(lit.right, var, val))
      [] OTHER -> lit

\* the tokens the Lexer reads where the text of an atom stands by itself
AtomTokens(atom) ==
    CASE atom.t = "num" -> <<Number(atom.v)>>
      [] atom.t = "dec" -> <<Tok("NUMBER", Rat(atom.n, atom.d))>>
      [] atom.t = "numunit" -> <<Number(atom.v), Identifier(atom.u)>>
      [] atom.t = "word" -> <<Identifier(atom.w)>>
      [] OTHER -> <<Cmd(atom.w)>>

\* ... in a token list, brace content included
RECURSIVE SubstTokens(_, _, _)
SubstTokens(tokens, var, val) ==
    IF tokens = <<>> THEN <<>>
    ELSE Let(Head(tokens), LAMBDA token :
         Let(CASE token.type = "COMMAND" /\ IsPrefixSeq(var, token.value) ->
                    AtomTokens(Glue(val, Rest(var, token.value)))
               [] token.type = "COORDINATE" ->
                    <<Coord(SubstLit(token.value, var, val))>>
               [] token.type = "STRING" ->
                    <<Str(BraceText(
                        [i \in 1..Len(token.value.items) |->
                           [j \in 1..Len(token.value.items[i]) |->
                              SubstAtom(token.value.items[i][j], var, val)]],
                        SubstTokens(token.value.tokens, var, val)))>>
               [] OTHER -> <<token>>, LAMBDA first :
             first \o SubstTokens(Tail(tokens), var, val)))

\* for (let i = 0; i < varNames.length && i < value.length; i++) replace
RECURSIVE SubstAll(_, _, _, _)
SubstAll(tokens, varNames, item, i) ==
    IF i > Len(varNames) \/ i > Len(item) THEN tokens
    ELSE SubstAll(SubstTokens(tokens, varNames[i], item[i]), varNames, item, i + 1)

\* the variable names: COMMAND tokens separated by SLASH (part_003 177-186)
RECURSIVE VarNames(_, _)
VarNames(p, names) ==
    IF PeekType(p) # "COMMAND" THEN [p |-> p, names |-> names]
    ELSE Let(advance(p), LAMBDA p1 :
         Let(Append(names, peek(p).value), LAMBDA more :
             IF PeekType(p1) = "SLASH" THEN VarNames(advance(p1), more)
             ELSE [p |-> p1, names |-> more]))

RECURSIVE parseCommand(_)
RECURSIVE ParseLoop(_, _)

\* the loop over the values with a sub-parser that works on copies: what it
\* registers is lost when it returns
RECURSIVE ForeachLoop_Copies(_, _, _, _, _)
ForeachLoop_Copies(p, varNames, items, body, commands) ==
    IF items = <<>> THEN CmdResult(p, commands, FALSE)
    ELSE Let(Head(items), LAMBDA item :
         Let(IF Len(varNames) > 1 THEN SubstAll(body, varNames, item, 1)
             ELSE SubstTokens(body, varNames[1], ForeachValue(item)), LAMBDA substituted :
         Let(NewParser(Append(substituted, EOFToken),
                       p.coordSystem, p.styles), LAMBDA subParser :
         Let(ParseLoop(subParser, <<>>), LAMBDA result :
             ForeachLoop_Copies(p, varNames, Tail(items), body,
                                commands \o result.commands)))))

\* the loop over the values (part_003 236-261): each sub-parser works on the
\* parent's coordinate system and style registry, and its errors stay with it
RECURSIVE ForeachLoop(_, _, _, _, _)
ForeachLoop(p, varNames, items, body, commands) ==
    IF items = <<>> THEN CmdResult(p, commands, FALSE)
    ELSE Let(Head(items), LAMBDA item :
         Let(IF Len(varNames) > 1 THEN SubstAll(body, varNames, item, 1)
             ELSE SubstTokens(body, varNames[1], ForeachValue(item)), LAMBDA substituted :
         Let(NewParser(Append(substituted, EOFToken),
                       p.coordSystem, p.styles), LAMBDA subParser :
         Let(ParseLoop(subParser, <<>>), LAMBDA result :
             ForeachLoop([p EXCEPT !.coordSystem = result.p.coordSystem,
                                   !.styles = result.p.styles],
                         varNames, Tail(items), body, commands \o result.commands)))))

\* parseForeach (part_003 173-265)
parseForeach(p0) ==
    Let(VarNames(advance(p0), <<>>), LAMBDA v :
        IF v.names = <<>>
        THEN CmdResult(PushError(v.p, "Expected variable name after \\foreach"),
                       <<>>, FALSE)
        ELSE IF ~(PeekType(v.p) = "IDENTIFIER" /\ peek(v.p).value = "in")
        THEN CmdResult(PushError(v.p, "Expected 'in' after foreach variable"),
                       <<>>, FALSE)
        ELSE
        Let(advance(v.p), LAMBDA p1 :
        Let(PeekType(p1) = "STRING", LAMBDA hasValues :
        Let(IF hasValues THEN peek(p1).value.items ELSE <<>>, LAMBDA items :
        Let(IF hasValues THEN advance(p1) ELSE p1, LAMBDA p2 :
        Let(PeekType(p2) = "STRING", LAMBDA hasBody :
        Let(IF hasBody THEN peek(p2).value.tokens ELSE <<>>, LAMBDA body :
        Let(IF hasBody THEN advance(p2) ELSE p2, LAMBDA p3 :
            ForeachLoop(p3, v.names, items, body, <<>>)))))))))

\* parseCommand (part_003 106-139): the parser afterwards, the commands to
\* add to the document (none for null), and whether it threw
parseCommand(p) ==
    Let(peek(p), LAMBDA token :
        IF token.type # "COMMAND" THEN CmdResult(advance(p), <<>>, FALSE)
        ELSE CASE token.value = cmdDraw -> parseDrawCommand(p, "DRAW")
               [] token.value = cmdFill -> parseDrawCommand(p, "FILL")
               [] token.value = cmdFilldraw -> parseDrawCommand(p, "FILLDRAW")
               [] token.value = cmdPath -> parseDrawCommand(p, "PATH")
               [] token.value = cmdNode -> parseNodeCommand(p)
               [] token.value = cmdCoordinate -> parseCoordinateCommand(p)
               [] token.value = cmdBegin -> parseBegin(p)
               [] token.value = cmdEnd -> parseEnd(p)
               [] token.value = cmdForeach -> parseForeach(p)
               [] OTHER -> CmdResult(advance(p), <<>>, FALSE))

\* "Skip to next semicolon or EOF" (part_003 96-98)
RECURSIVE SkipToSemicolon(_)
SkipToSemicolon(p) ==
    IF PeekType(p) \in {"SEMICOLON", "EOF"} THEN p
    ELSE SkipToSemicolon(advance(p))

\* one pass of the loop of parse() whose catch records the error and skips
\* nothing
ParseStep_NoSkip(p) ==
    Let(parseCommand(p), LAMBDA r :
        IF r.thrown
        THEN [p |-> PushError(r.p, "TypeError"),
              out |-> <<>>, threw |-> TRUE, escaped |-> FALSE]
        ELSE [p |-> r.p, out |-> r.out, threw |-> FALSE, escaped |-> FALSE])

\* one pass of the loop of parse() without the catch: the exception escapes
ParseStep_NoCatch(p) ==
    Let(parseCommand(p), LAMBDA r :
        [p |-> r.p, out |-> r.out, threw |-> r.thrown, escaped |-> r.thrown])

\* one pass of the loop of parse() (part_003 80-100): try, catch
ParseStep(p) ==
    Let(parseCommand(p), LAMBDA r :
        IF r.thrown
        THEN [p |-> match(SkipToSemicolon(PushError(r.p, "TypeError")),
                          "SEMICOLON"),
              out |-> <<>>, threw |-> TRUE, escaped |-> FALSE]
        ELSE [p |-> r.p, out |-> r.out, threw |-> FALSE, escaped |-> FALSE])

\* parse() of a sub-parser, to its end (part_003 76-104)
ParseLoop(p, commands) ==
    IF PeekType(p) = "EOF" THEN [p |-> p, commands |-> commands]
    ELSE Let(ParseStep(p), LAMBDA r :
             ParseLoop(r.p, commands \o r.out))

-----------------------------------------------------------------------------
(* The Renderer's first pass and the line segments of renderDraw             *)
(* (renderer.js 79-140, 313-379).  box is the bounding box the browser       *)
(* measures for a node's text, in TikZ units (textBBox / scale).             *)

ZeroBox == [width |-> R(0), height |-> R(0)]

\* measureNode (renderer.js 100-140)
measureNode(n, box) ==
    Let(IF n.text = NoText THEN ZeroBox ELSE box, LAMBDA textBBox :
    Let(RAdd(textBBox.width, RMul(n.innerSep, R(2))), LAMBDA textWidth :
    Let(RAdd(textBBox.height, RMul(n.innerSep, R(2))), LAMBDA textHeight :
        [center |-> n.position,
         width |-> RMax(n.width, textWidth),
         height |-> RMax(n.height, textHeight),
         shape |-> n.shape])))

\* the named nodes of a command: the command itself, or its inline nodes
RECURSIVE NamedNodes(_)
NamedNodes(items) ==
    IF items = <<>> THEN <<>>
    ELSE Let(Head(items), LAMBDA item :
         Let(IF item.type = "NODE" /\ item.name # NoName THEN <<item>>
             ELSE <<>>, LAMBDA here :
         Let(IF "segments" \in DOMAIN item
             THEN NamedNodes(item.segments) ELSE <<>>, LAMBDA inside :
             here \o inside \o NamedNodes(Tail(items)))))

\* measureAllNodes (renderer.js 79-95): a later node of the same name
\* replaces the earlier one
RECURSIVE MeasureNodes(_, _, _)
MeasureNodes(nodes, boxes, metrics) ==
    IF nodes = <<>> THEN metrics
    ELSE MeasureNodes(Tail(nodes), boxes,
             MapSet(metrics, Head(nodes).name,
                    measureNode(Head(nodes), boxes[Head(nodes).name])))

measureAllNodes(commands, boxes) ==
    MeasureNodes(NamedNodes(commands), boxes, EmptyMap)

HasMetrics(metrics, segment, field) ==
    /\ field \in DOMAIN segment
    /\ segment[field] # NoName
    /\ MapHas(metrics, segment[field])

\* the LINE_SEGMENT case of renderDraw (renderer.js 339-373): the two end
\* points in TikZ units.  The parser sets no toAnchorNodeName, and the
\* commands of this model are not decorated with a brace.
RenderLine(metrics, segment) ==
    Let(HasMetrics(metrics, segment, "fromNodeName"), LAMBDA hasFrom :
    Let(HasMetrics(metrics, segment, "toNodeName"), LAMBDA hasTo :
    Let(IF hasFrom THEN metrics[segment.fromNodeName].center
        ELSE segment.from, LAMBDA fromCenter :
    Let(IF hasTo THEN metrics[segment.toNodeName].center
        ELSE segment.to, LAMBDA toCenter :
        [type |-> "LINE_SEGMENT",
         fromPoint |-> IF hasFrom
                       THEN RendererBoundaryPoint(metrics, segment.fromNodeName,
                                                  fromCenter, segment.to)
                       ELSE segment.from,
         toPoint |-> IF hasTo
                     THEN RendererBoundaryPoint(metrics, segment.toNodeName,
                                                toCenter, fromCenter)
                     ELSE segment.to]))))

\* renderCommand and the loop of renderDraw (renderer.js 292-311, 326-443),
\* as far as line segments go
RenderCommand(metrics, command) ==
    IF command.type \in {"DRAW", "FILL", "FILLDRAW", "PATH"}
    THEN [j \in 1..Len(command.segments) |->
            IF command.segments[j].type = "LINE_SEGMENT"
            THEN RenderLine(metrics, command.segments[j])
            ELSE [type |-> command.segments[j].type]]
    ELSE <<>>

-----------------------------------------------------------------------------
(* Styles (src/index.js 19-552).  Style objects, their arrays and their      *)
(* decoration objects are JavaScript objects with an identity: they live in  *)
(* a heap, a sequence of cells, and a reference is the index of a cell.  An   *)
(* array is the cell [items |-> its elements].                               *)
(* Numbers are exact rationals.  Option texts are piece sequences, as        *)
(* parseOptionsBlock builds them.                                            *)

NullRef == 0

COLORS ==
    [name \in {"red", "green", "blue", "cyan", "magenta", "yellow", "black",
               "white", "gray", "grey", "darkgray", "darkgrey", "lightgray",
               "lightgrey", "brown", "lime", "olive", "orange", "pink",
               "purple", "teal", "violet", "red!50", "blue!50", "green!50",
               "red!25", "blue!25", "green!25", "red!75", "blue!75",
               "green!75"} |->
        CASE name = "red" -> "#ff0000" [] name = "green" -> "#00ff00"
          [] name = "blue" -> "#0000ff" [] name = "cyan" -> "#00ffff"
          [] name = "magenta" -> "#ff00ff" [] name = "yellow" -> "#ffff00"
          [] name = "black" -> "#000000" [] name = "white" -> "#ffffff"
          [] name \in {"gray", "grey"} -> "#808080"
          [] name \in {"darkgray", "darkgrey"} -> "#404040"
          [] name \in {"lightgray", "lightgrey"} -> "#c0c0c0"
          [] name = "brown" -> "#bf8040" [] name = "lime" -> "#bfff00"
          [] name = "olive" -> "#808000" [] name = "orange" -> "#ff8000"
          [] name = "pink" -> "#ffbfbf" [] name = "purple" -> "#bf0040"
          [] name = "teal" -> "#008080" [] name = "violet" -> "#800080"
          [] name = "red!50" -> "#ff8080" [] name = "blue!50" -> "#8080ff"
          [] name = "green!50" -> "#80ff80" [] name = "red!25" -> "#ffbfbf"
          [] name = "blue!25" -> "#bfbfff" [] name = "green!25" -> "#bfffbf"
          [] name = "red!75" -> "#ff4040" [] name = "blue!75" -> "#4040ff"
          [] name = "green!75" -> "#40ff40"]

LINE_WIDTHS ==
    [name \in {"ultra thin", "very thin", "thin", "semithick", "thick",
               "very thick", "ultra thick"} |->
        CASE name = "ultra thin" -> <<1, 10>> [] name = "very thin" -> <<1, 5>>
          [] name = "thin" -> <<2, 5>> [] name = "semithick" -> <<3, 5>>
          [] name = "thick" -> <<4, 5>> [] name = "very thick" -> <<6, 5>>
          [] name = "ultra thick" -> <<8, 5>>]

\* the presets that are arrays; solid is null
DASH_PATTERNS ==
    [name \in {"dashed", "dotted", "densely dashed", "loosely dashed",
               "densely dotted", "loosely dotted", "dash dot", "dash dot dot"} |->
        CASE name = "dashed" -> <<5, 5>> [] name = "dotted" -> <<1, 3>>
          [] name = "densely dashed" -> <<3, 2>>
          [] name = "loosely dashed" -> <<5, 8>>
          [] name = "densely dotted" -> <<1, 2>>
          [] name = "loosely dotted" -> <<1, 5>>
          [] name = "dash dot" -> <<5, 3, 1, 3>>
          [] name = "dash dot dot" -> <<5, 3, 1, 3, 1, 3>>]

\* the text of a piece sequence
RECURSIVE PiecesText(_)
PiecesText(pieces) ==
    IF pieces = <<>> THEN "" ELSE Head(pieces).s \o PiecesText(Tail(pieces))

\* trimmed.indexOf("="): the first "=" piece, 0 for none
RECURSIVE EqIndex(_, _)
EqIndex(opt, i) ==
    IF i > Len(opt) THEN 0
    ELSE IF opt[i].s = "=" THEN i ELSE EqIndex(opt, i + 1)

\* parseOption (index.js 485-499): the key as a text, the value as pieces,
\* isNull for the null value of a bare option
parseOption(opt) ==
    Let(EqIndex(opt, 1), LAMBDA eqIndex :
        IF eqIndex # 0
        THEN [key |-> PiecesText(SubSeq(opt, 1, eqIndex - 1)),
              value |-> SubSeq(opt, eqIndex + 1, Len(opt)), isNull |-> FALSE]
        ELSE [key |-> PiecesText(opt), value |-> <<>>, isNull |-> TRUE])

\* a JavaScript value used as a condition: null and "" are falsy
Truthy(v) == ~v.isNull /\ v.value # <<>>

\* parseColor (index.js 87-123) on the text of a value: a named colour, or
\* the text as it is; "" stands for the null of a falsy value.  The mix, rgb
\* and hex syntaxes do not occur in the option texts modelled.
parseColor(text) ==
    IF text = "" THEN ""
    ELSE IF text \in DOMAIN COLORS THEN COLORS[text] ELSE text

\* parseFloat(value): the number that starts the text, NaN otherwise.  NaN
\* among rationals is 0/0.
NotANumber == <<0, 0>>
ValueFloat(v) ==
    IF ~v.isNull /\ Len(v.value) >= 1 /\ "n" \in DOMAIN v.value[1]
    THEN R(v.value[1].n) ELSE NotANumber

\* value.match(/^(-?\d+\.?\d*)(pt|px|mm|cm|em)?$/): a number and its unit
UnitMatch(value) ==
    IF Len(value) = 1 /\ "n" \in DOMAIN value[1]
    THEN [ok |-> TRUE, num |-> R(value[1].n), unit |-> "pt"]
    ELSE IF /\ Len(value) = 2 /\ "n" \in DOMAIN value[1]
            /\ value[2].s \in {"pt", "px", "mm", "cm", "em"}
         THEN [ok |-> TRUE, num |-> R(value[1].n), unit |-> value[2].s]
         ELSE [ok |-> FALSE, num |-> R(0), unit |-> "pt"]

\* parseLineWidth (index.js 151-190) of a value that is a text, scale 1
parseLineWidth(value) ==
    IF PiecesText(value) \in DOMAIN LINE_WIDTHS
    THEN LINE_WIDTHS[PiecesText(value)]
    ELSE Let(UnitMatch(value), LAMBDA numMatch :
             IF numMatch.ok
             THEN RMul(numMatch.num,
                       CASE numMatch.unit = "pt" -> <<1333, 1000>>
                         [] numMatch.unit = "mm" -> <<378, 100>>
                         [] numMatch.unit = "cm" -> <<378, 10>>
                         [] numMatch.unit = "em" -> R(16)
                         [] OTHER -> R(1))
             ELSE R(1))

\* the rounded corners case of parseOptions (index.js 322-352)
RoundedCorners(v) ==
    IF ~Truthy(v) THEN <<1, 10>>
    ELSE Let(UnitMatch(v.value), LAMBDA numMatch :
             IF numMatch.ok
             THEN RMul(numMatch.num,
                       CASE numMatch.unit = "pt" -> <<353, 10000>>
                         [] numMatch.unit = "mm" -> <<1, 10>>
                         [] numMatch.unit = "px" -> <<264, 10000>>
                         [] numMatch.unit = "em" -> <<423, 1000>>
                         [] OTHER -> R(1))
             ELSE <<1, 10>>)

\* new Style() (index.js 221-238), its transformations array at reference t
StyleObject(t) ==
    [stroke |-> "#000000", fill |-> "none", lineWidth |-> <<2, 5>>,
     dashPattern |-> NullRef, opacity |-> R(1), fillOpacity |-> R(1),
     strokeOpacity |-> R(1), lineCap |-> "butt", lineJoin |-> "miter",
     roundedCorners |-> R(0), arrowStart |-> "null", arrowEnd |-> "null",
     transformations |-> t, decorate |-> FALSE, decoration |-> NullRef]

\* an allocation: the heap afterwards and the reference of the new object
Ref(h, ref) == [heap |-> h, ref |-> ref]
Alloc(h, object) == Ref(Append(h, object), Len(h) + 1)

\* new Style(): the array, then the object that holds it
Array(items) == [items |-> items]
NewStyle(h) == Alloc(Append(h, Array(<<>>)), StyleObject(Len(h) + 1))

\* a copy of the object at ref, null staying null: [...array], { ...object }
CopyOf(h, ref) == IF ref = NullRef THEN Ref(h, NullRef) ELSE Alloc(h, h[ref])

\* a clone that Object.assign alone would make: the arrays and the
\* decoration of the original are those of the clone
clone_Shared(h, this) == Alloc(h, h[this])

\* Style.clone (index.js 240-247); the array "new Style()" made for the clone
\* is dropped by Object.assign and has no cell here
clone(h, this) ==
    Let(CopyOf(h, h[this].dashPattern), LAMBDA d :
    Let(CopyOf(d.heap, h[this].transformations), LAMBDA t :
    Let(CopyOf(t.heap, h[this].decoration), LAMBDA o :
        Alloc(o.heap, [h[this] EXCEPT !.dashPattern = d.ref,
                                      !.transformations = t.ref,
                                      !.decoration = o.ref]))))

\* style.f = v
SetField(h, style, f, v) == [h EXCEPT ![style][f] = v]

\* style.transformations.push(t)
PushTransformation(h, style, t) ==
    [h EXCEPT ![h[style].transformations].items = Append(@, t)]

\* style.dashPattern = parseDashPattern(key, 1) (index.js 195-216, 290-301):
\* pattern.map makes a new array; solid, a null value and a text that is no
\* preset give null (the "on x off y" syntax is not among the texts modelled)
SetDashPreset(h, style, key) ==
    IF key \in DOMAIN DASH_PATTERNS
    THEN Let(Alloc(h, Array(DASH_PATTERNS[key])), LAMBDA a :
             SetField(a.heap, style, "dashPattern", a.ref))
    ELSE SetField(h, style, "dashPattern", NullRef)

\* the parts of a decoration value: cleanValue.split(","), each part a
\* sequence of atoms
DecorationParts(value) ==
    IF Len(value) = 1 /\ "body" \in DOMAIN value[1] THEN value[1].body.items
    ELSE <<<<Word(PiecesText(value))>>>>

\* amplitude = number, with its unit (index.js 440-449)
Amplitude(part) ==
    CASE part[Len(part)].t = "num" -> RMul(R(part[Len(part)].v), <<1, 10>>)
      [] part[Len(part)].t = "numunit" ->
           RMul(R(part[Len(part)].v),
                CASE part[Len(part)].u = "cm" -> R(1)
                  [] part[Len(part)].u = "pt" -> <<353, 10000>>
                  [] OTHER -> <<1, 10>>)

\* the loop over the parts of a decoration value (index.js 436-463)
RECURSIVE DecorationLoop(_, _)
DecorationLoop(decoration, parts) ==
    IF parts = <<>> THEN decoration
    ELSE Let(Head(parts), LAMBDA part :
             DecorationLoop(
                 IF Len(part) = 1 /\ part[1] \in {Word("snake"), Word("zigzag"), Word("coil")}
                 THEN [decoration EXCEPT !.type = part[1].w]
                 ELSE IF /\ Len(part) = 3 /\ part[1] = Word("amplitude")
                         /\ part[2] = Word("=") /\ part[3].t \in {"num", "numunit"}
                      THEN [decoration EXCEPT !.amplitude = Amplitude(part)]
                      ELSE IF /\ Len(part) = 4 /\ part[1] = Word("segment")
                              /\ part[2] = Word("length") /\ part[3] = Word("=")
                              /\ part[4].t \in {"num", "numunit"}
                           THEN [decoration EXCEPT !.segmentLength = Amplitude(part)]
                           ELSE decoration,
                 Tail(parts)))

\* the decoration case (index.js 429-466): a new object for the style
SetDecoration(h, style, v) ==
    IF ~Truthy(v) THEN h
    ELSE Let(Alloc(h, DecorationLoop([type |-> "snake", amplitude |-> <<1, 2>>,
                                      segmentLength |-> R(5)],
                                     DecorationParts(v.value))), LAMBDA o :
             SetField(o.heap, style, "decoration", o.ref))

\* the shift case (index.js 393-402): the value holds "(x,y)"
SetShift(h, style, v) ==
    IF /\ Len(v.value) >= 1 /\ "lit" \in DOMAIN v.value[1]
       /\ v.value[1].lit.kind = "tuple" /\ Len(v.value[1].lit.parts) >= 2
       /\ v.value[1].lit.parts[1].t = "num" /\ v.value[1].lit.parts[2].t = "num"
    THEN PushTransformation(h, style,
             [type |-> "shift", x |-> R(v.value[1].lit.parts[1].v),
              y |-> R(v.value[1].lit.parts[2].v)])
    ELSE h

ArrowEndKeys == {"->", "-stealth", "-latex", "-to", "-Latex", "-Stealth"}
ArrowStartKeys == {"<-", "stealth-", "latex-", "to-", "Latex-", "Stealth-"}
ArrowBothKeys ==
    {"<->", "stealth-stealth", "latex-latex", "Latex-Latex", "Stealth-Stealth"}

\* key.slice(1) and key.slice(0, -1) of an arrow key, in lower case
ArrowTip(key) ==
    CASE key \in {"->", "<-"} -> ">"
      [] key \in {"-stealth", "-Stealth", "stealth-", "Stealth-"} -> "stealth"
      [] key \in {"-latex", "-Latex", "latex-", "Latex-"} -> "latex"
      [] key \in {"-to", "to-"} -> "to"

\* the cases of the switch of parseOptions that need a value and raise a
\* TypeError on the null of a bare option: value.trim(), value.match(...)
NeedsValue(key) == key \in {"line width", "shift", "xshift", "yshift"}

\* one pass of the loop of parseOptions (index.js 256-476): the heap after
\* the option is applied to the style
ApplyOption(h, style, key, v) ==
    CASE key = "color" \/ (key = "draw" /\ Truthy(v)) ->
           IF parseColor(PiecesText(v.value)) # ""
           THEN SetField(h, style, "stroke", parseColor(PiecesText(v.value)))
           ELSE h
      [] key = "draw" -> h
      [] key = "fill" ->
           SetField(h, style, "fill",
                    IF parseColor(PiecesText(v.value)) # ""
                    THEN parseColor(PiecesText(v.value)) ELSE "currentColor")
      [] key = "line width" -> SetField(h, style, "lineWidth", parseLineWidth(v.value))
      [] key \in DOMAIN LINE_WIDTHS -> SetField(h, style, "lineWidth", LINE_WIDTHS[key])
      [] key = "solid" \/ key \in DOMAIN DASH_PATTERNS -> SetDashPreset(h, style, key)
      [] key = "dash pattern" -> SetDashPreset(h, style, PiecesText(v.value))
      [] key = "opacity" -> SetField(h, style, "opacity", ValueFloat(v))
      [] key = "fill opacity" -> SetField(h, style, "fillOpacity", ValueFloat(v))
      [] key = "draw opacity" -> SetField(h, style, "strokeOpacity", ValueFloat(v))
      [] key = "line cap" ->
           SetField(h, style, "lineCap", IF v.isNull THEN "null" ELSE PiecesText(v.value))
      [] key = "line join" ->
           SetField(h, style, "lineJoin", IF v.isNull THEN "null" ELSE PiecesText(v.value))
      [] key = "rounded corners" -> SetField(h, style, "roundedCorners", RoundedCorners(v))
      [] key = "sharp corners" -> SetField(h, style, "roundedCorners", R(0))
      [] key \in ArrowEndKeys -> SetField(h, style, "arrowEnd", ArrowTip(key))
      [] key \in ArrowStartKeys -> SetField(h, style, "arrowStart", ArrowTip(key))
      [] key \in ArrowBothKeys ->
           SetField(SetField(h, style, "arrowStart", ">"), style, "arrowEnd", ">")
      [] key = "|->" ->
           SetField(SetField(h, style, "arrowStart", "|"), style, "arrowEnd", ">")
      [] key = "<-|" ->
           SetField(SetField(h, style, "arrowStart", ">"), style, "arrowEnd", "|")
      [] key = "arrow" -> SetField(h, style, "arrowEnd", ">")
      [] key = "shift" -> SetShift(h, style, v)
      [] key \in {"xshift", "yshift"} ->
           PushTransformation(h, style, [type |-> key, value |-> parseLineWidth(v.value)])
      [] key = "rotate" ->
           PushTransformation(h, style, [type |-> key, angle |-> ValueFloat(v)])
      [] key \in {"scale", "xscale", "yscale"} ->
           PushTransformation(h, style, [type |-> key, factor |-> ValueFloat(v)])
      [] key = "decorate" -> SetField(h, style, "decorate", TRUE)
      [] key = "decoration" -> SetDecoration(h, style, v)
      [] OTHER ->
           IF parseColor(key) # "" /\ parseColor(key) # key
           THEN SetField(h, style, "stroke", parseColor(key))
           ELSE h

\* for (const opt of options) ...: thrown when a case raised a TypeError,
\* the heap then being as the options before it left it
RECURSIVE OptionsFold(_, _, _)
OptionsFold(h, style, options) ==
    IF options = <<>> THEN [heap |-> h, ref |-> style, thrown |-> FALSE]
    ELSE Let(parseOption(Head(options)), LAMBDA o :
             IF NeedsValue(o.key) /\ o.isNull
             THEN [heap |-> h, ref |-> style, thrown |-> TRUE]
             ELSE OptionsFold(ApplyOption(h, style, o.key, o), style, Tail(options)))

\* parseOptions(options, baseStyle) (index.js 253-480), scale 1
parseOptions(h, options, baseStyle) ==
    Let(IF baseStyle # NullRef THEN clone(h, baseStyle) ELSE NewStyle(h), LAMBDA s :
        OptionsFold(s.heap, s.ref, options))

\* color.replace(/[^a-zA-Z0-9]/g, "") (index.js 536): a colour of COLORS
\* loses its "#", a word stays as it is
HexIds ==
    {"ff0000", "00ff00", "0000ff", "00ffff", "ff00ff", "ffff00", "000000",
     "ffffff", "808080", "404040", "c0c0c0", "bf8040", "bfff00", "808000",
     "ff8000", "ffbfbf", "bf0040", "008080", "800080", "ff8080", "8080ff",
     "80ff80", "bfbfff", "bfffbf", "ff4040", "4040ff", "40ff40"}
ColorId(color) ==
    IF \E id \in HexIds : "#" \o id = color
    THEN CHOOSE id \in HexIds : "#" \o id = color
    ELSE color

\* a getArrowMarker that puts the colour into the id as it is
getArrowMarker_RawColor(type, isStart, color) ==
    "url(#arrow-"
    \o (CASE type \in {">", "<"} -> "standard"
          [] type \in {"stealth", "latex", "to"} -> type
          [] type = "|" -> "bar"
          [] type \in {">>", "<<"} -> "double"
          [] OTHER -> "standard")
    \o (IF isStart THEN "-start" ELSE "-end")
    \o "-" \o color \o ")"

\* getArrowMarker (index.js 535-552)
getArrowMarker(type, isStart, color) ==
    "url(#arrow-"
    \o (CASE type \in {">", "<"} -> "standard"
          [] type \in {"stealth", "latex", "to"} -> type
          [] type = "|" -> "bar"
          [] type \in {">>", "<<"} -> "double"
          [] OTHER -> "standard")
    \o (IF isStart THEN "-start" ELSE "-end")
    \o "-" \o ColorId(color) \o ")"

\* the items of the array at ref, doubled: dashPattern.map(v => v * 2)
RECURSIVE Doubled(_)
Doubled(items) ==
    IF items = <<>> THEN <<>> ELSE <<2 * Head(items)>> \o Doubled(Tail(items))

\* element.setAttribute(name, value) when the condition holds
SetAttributeIf(cond, attrs, name, value) ==
    IF cond THEN MapSet(attrs, name, value) ELSE attrs

\* the stroke part of applyStyle (renderer.js 1786-1817)
StrokeAttributes(h, style, doStroke, strokeColor) ==
    IF ~doStroke THEN MapSet(EmptyMap, "stroke", "none")
    ELSE SetAttributeIf(h[style].arrowStart # "null",
         SetAttributeIf(h[style].arrowEnd # "null",
         SetAttributeIf(h[style].strokeOpacity # R(1),
         SetAttributeIf(h[style].lineJoin \notin {"null", ""},
         SetAttributeIf(h[style].lineCap \notin {"null", ""},
         SetAttributeIf(h[style].dashPattern # NullRef,
         MapSet(MapSet(EmptyMap, "stroke", strokeColor),
                "stroke-width",
                RMul(IF h[style].lineWidth \in {R(0), NotANumber}
                     THEN <<2, 5>> ELSE h[style].lineWidth, R(2))),
             "stroke-dasharray",
             IF h[style].dashPattern # NullRef
             THEN Doubled(h[h[style].dashPattern].items) ELSE <<>>),
             "stroke-linecap", h[style].lineCap),
             "stroke-linejoin", h[style].lineJoin),
             "stroke-opacity", h[style].strokeOpacity),
             "marker-end", getArrowMarker(h[style].arrowEnd, FALSE, strokeColor)),
             "marker-start", getArrowMarker(h[style].arrowStart, TRUE, strokeColor))

\* applyStyle (renderer.js 1785-1842): the attributes the element gets
applyStyle(h, style, doStroke, doFill, strokeColor) ==
    SetAttributeIf(h[style].opacity # R(1),
    SetAttributeIf(doFill /\ h[style].fillOpacity # R(1),
    MapSet(StrokeAttributes(h, style, doStroke, strokeColor),
           "fill",
           IF ~doFill THEN "none"
           ELSE IF h[style].fill \notin {"", "none"}
                THEN parseColor(h[style].fill) ELSE strokeColor),
        "fill-opacity", h[style].fillOpacity),
        "opacity", h[style].opacity)

\* const strokeColor = style.stroke || this.defaultStroke (renderer.js 318)
StrokeColor(h, style) ==
    IF h[style].stroke # "" THEN h[style].stroke ELSE "#000000"

-----------------------------------------------------------------------------
(* Plot sampling (part_003 1393-1457, pgfplots.js 10-13, 145-202).  The      *)
(* doubles that are not finite are rationals with denominator 0: 1/0 and     *)
(* -1/0 are the infinities, 0/0 is NaN.                                      *)

IsFinite(x) == x[2] # 0
IsNaN(x) == x = NotANumber
Infinity(sign) == <<sign, 0>>
Sign(i) == IF i > 0 THEN 1 ELSE IF i < 0 THEN -1 ELSE 0

\* p / q, p * q and p + q of JavaScript
JsDiv(p, q) ==
    IF IsFinite(p) /\ IsFinite(q)
    THEN IF q[1] # 0 THEN RDiv(p, q) ELSE Infinity(Sign(p[1]))
    ELSE IF IsNaN(p) \/ IsNaN(q) \/ ~(IsFinite(p) \/ IsFinite(q)) THEN NotANumber
         ELSE IF IsFinite(p) THEN R(0)
              ELSE Infinity(p[1] * (IF q[1] < 0 THEN -1 ELSE 1))
JsMul(p, q) ==
    IF IsFinite(p) /\ IsFinite(q) THEN RMul(p, q)
    ELSE Infinity(Sign(p[1]) * Sign(q[1]))
JsAdd(p, q) ==
    IF IsFinite(p) /\ IsFinite(q) THEN RAdd(p, q)
    ELSE IF IsNaN(p) \/ IsNaN(q) THEN NotANumber
         ELSE IF IsFinite(p) THEN q
              ELSE IF IsFinite(q) \/ p = q THEN p ELSE NotANumber

\* value.match(/^(-?\d+\.?\d*)\s*:\s*(-?\d+\.?\d*)$/) on the value of an
\* option: the text after "=" is a number, ":" and a number
IsDomainOption(opt) ==
    /\ Len(opt) = 5
    /\ opt[1].s = "domain" /\ opt[2].s = "="
    /\ "n" \in DOMAIN opt[3] /\ opt[4].s = ":" /\ "n" \in DOMAIN opt[5]

\* key === "samples" && value, the value starting with an integer
IsSamplesOption(opt) ==
    /\ Len(opt) >= 3
    /\ opt[1].s = "samples" /\ opt[2].s = "="
    /\ "n" \in DOMAIN opt[3]

Domain(min, max) == [min |-> R(min), max |-> R(max)]
NoDomain == [none |-> TRUE]

\* the loop over the options (part_003 1401-1413, pgfplots.js 149-166):
\* the last domain and the last samples option decide
RECURSIVE PlotOptions(_, _, _)
PlotOptions(options, domain, samples) ==
    IF options = <<>> THEN [domain |-> domain, samples |-> samples]
    ELSE Let(Head(options), LAMBDA opt :
             PlotOptions(Tail(options),
                 IF IsDomainOption(opt) THEN Domain(opt[3].n, opt[5].n) ELSE domain,
                 IF IsSamplesOption(opt) THEN opt[3].n ELSE samples))

\* evaluateExpression (part_003 1462-1497) of the expression that is the
\* variable itself: the value, and 0 for a value that is not finite
evaluateExpression(x) == IF IsFinite(x) THEN x ELSE R(0)

\* for (let i = 0; i < samples; i++) points.push(new Point(min + i * step, y))
SamplePoints(min, dx, samples) ==
    [k \in 1..samples |->
        Point(JsAdd(min, JsMul(R(k - 1), dx)),
              evaluateExpression(JsAdd(min, JsMul(R(k - 1), dx))))]

\* a step that is (max - min) / max(1, samples - 1) also in parsePlot
parsePlot_Guarded(options) ==
    Let(PlotOptions(options, Domain(0, 1), 100), LAMBDA o :
        [domain |-> o.domain, samples |-> o.samples,
         points |-> SamplePoints(o.domain.min,
                        JsDiv(RSub(o.domain.max, o.domain.min),
                              R(IF o.samples - 1 > 1 THEN o.samples - 1 ELSE 1)),
                        o.samples)])

\* parsePlot (part_003 1393-1457) of "plot (\x, {\x})" under the options of
\* the draw command
parsePlot(options) ==
    Let(PlotOptions(options, Domain(0, 1), 100), LAMBDA o :
        [domain |-> o.domain, samples |-> o.samples,
         points |-> SamplePoints(o.domain.min,
                        JsDiv(RSub(o.domain.max, o.domain.min), R(o.samples - 1)),
                        o.samples)])

\* parseRange (pgfplots.js 10-13) of the axis limits, null when one is
\* missing or both are equal
parseRange(min, max) ==
    IF ~IsFinite(min) \/ ~IsFinite(max) \/ min = max THEN NoDomain
    ELSE [min |-> min, max |-> max]

\* parseAddPlot (pgfplots.js 170-202) of "\addplot[options] {x};": 0 as the
\* number of samples is falsy, and the default replaces it
parseAddPlot(options, xMin, xMax) ==
    Let(PlotOptions(options, NoDomain, 0), LAMBDA o :
    Let(IF o.domain # NoDomain THEN o.domain
        ELSE IF parseRange(xMin, xMax) # NoDomain THEN parseRange(xMin, xMax)
             ELSE Domain(0, 1), LAMBDA domain :
    Let(IF o.samples # 0 THEN o.samples ELSE 100, LAMBDA samples :
        [domain |-> domain, samples |-> samples,
         points |-> SamplePoints(domain.min,
                        JsDiv(RSub(domain.max, domain.min),
                              R(IF samples - 1 > 1 THEN samples - 1 ELSE 1)),
                        samples)])))

-----------------------------------------------------------------------------
(* Axis ticks (renderer.js 496-515).  Here a number is held as the rational  *)
(* number of its millionths: every step of generateTicks but toFixed(6) is   *)
(* the same at every scale, and toFixed(6) is the rounding to an integer.    *)

\* 10^j in millionths is Pow10(j + 6)
RECURSIVE Pow10(_)
Pow10(j) ==
    IF j = 0 THEN R(1)
    ELSE IF j > 0 THEN RMul(R(10), Pow10(j - 1)) ELSE RDiv(Pow10(j + 1), R(10))

\* the power of ten P with P <= rawStep < 10 P, searched from 10^j upwards:
\* Math.pow(10, Math.floor(Math.log10(rawStep)))
RECURSIVE Magnitude(_, _)
Magnitude(rawStep, j) ==
    IF RLt(rawStep, Pow10(j + 1)) THEN Pow10(j) ELSE Magnitude(rawStep, j + 1)

\* the first of 1, 2, 5, 10 times the magnitude that rawStep does not exceed
NiceStep(rawStep, magnitude) ==
    CASE RLe(rawStep, magnitude) -> magnitude
      [] RLe(rawStep, RMul(R(2), magnitude)) -> RMul(R(2), magnitude)
      [] RLe(rawStep, RMul(R(5), magnitude)) -> RMul(R(5), magnitude)
      [] RLe(rawStep, RMul(R(10), magnitude)) -> RMul(R(10), magnitude)
      [] OTHER -> magnitude

\* Math.ceil
Ceil(x) == 0 - ((0 - x[1]) \div x[2])

\* Number(value.toFixed(6)): the nearest millionth, the larger of two in
\* absolute value
ToFixed6(x) ==
    R((IF x[1] < 0 THEN -1 ELSE 1) * ((2 * Abs(x[1]) + x[2]) \div (2 * x[2])))

\* a generateTicks that pushes the values as they are
ToFixed6_Exact(x) == x

\* for (let value = start; value <= limit; value += step) ticks.push(...)
RECURSIVE TickLoop(_, _, _)
TickLoop(value, limit, dx) ==
    IF RLe(value, limit)
    THEN <<ToFixed6(value)>> \o TickLoop(RAdd(value, dx), limit, dx)
    ELSE <<>>

MinExponent == 0 - 3

\* generateTicks(range, 6) (renderer.js 496-515): the ticks, with the step
\* and the magnitude chosen on the way
generateTicks(range, desired) ==
    IF ~RLt(range.min, range.max)
    THEN [ticks |-> <<>>, dx |-> R(0), magnitude |-> R(0)]
    ELSE Let(RDiv(RSub(range.max, range.min), R(desired - 1)), LAMBDA rawStep :
         Let(Magnitude(rawStep, MinExponent), LAMBDA magnitude :
         Let(NiceStep(rawStep, magnitude), LAMBDA dx :
             [ticks |-> TickLoop(RMul(R(Ceil(RDiv(range.min, dx))), dx),
                                 RAdd(range.max, RHalf(dx)), dx),
              dx |-> dx, magnitude |-> magnitude])))

-----------------------------------------------------------------------------
(* SpecCoord: a CoordinateSystem driven through its methods, in any order, *)
(* as the parser drives it while it reads coordinates and registers nodes. *)

MaxCalls == 3

NoCall == [none |-> TRUE]

\* the coordinate texts the calls are made with
CoordLits ==
    {Tuple(<<Num(1), Num(0)>>), Tuple(<<Num(0), Num(2)>>),
     Tuple(<<Num(1), Num(0), Num(1)>>), Tuple(<<Num(1), Word("q")>>),
     Polar(90, 1), Name(Word("a")), Name(Word("c")), Name(Word("u")),
     Anchor(Word("a"), "north"), Anchor(Word("a"), "nowhere"),
     Calc(Name(Word("a")), "+", Tuple(<<Num(1), Num(0)>>)), Other}

NodeCenters == {Pt(2, 1)}
NamedPoints == {Pt(-1, 3)}


\* no Style, no long-lived Renderer and no numerical routine at work
MoreIdle ==
    /\ heap = <<>>
    /\ styleCall = NoCall
    /\ renderer = NoCall
    /\ sample = NoCall
    /\ editor = NoCall

\* no parser and no renderer at work
ParseIdle ==
    /\ parser = NoCall
    /\ document = <<>>
    /\ pc = "idle"
    /\ nodeMetrics = EmptyMap
    /\ rendered = <<>>
    /\ step = NoCall

InitCoord ==
    /\ coordSystem = NewCoordinateSystem
    /\ call = NoCall
    /\ prevCall = NoCall
    /\ calls = 0
    /\ probe = NoCall
    /\ ParseIdle
    /\ MoreIdle

CallRecord(lit, isRelative, updatePosition, res, nodeName) ==
    [lit |-> lit, isRelative |-> isRelative, updatePosition |-> updatePosition,
     point |-> res.point, before |-> coordSystem, nodeName |-> nodeName]

\* a direct call of parseCoordinate(coordString, isRelative, updatePosition)
CParseCoordinate ==
    \E lit \in CoordLits, isRelative \in BOOLEAN, updatePosition \in BOOLEAN :
      \E res \in {parseCoordinate(coordSystem, lit, isRelative, updatePosition)} :
        /\ calls < MaxCalls
        /\ coordSystem' = res.cs
        /\ call' = CallRecord(lit, isRelative, updatePosition, res, "")
        /\ prevCall' = call
        /\ calls' = calls + 1
        /\ UNCHANGED <<probe, parseVars, moreVars>>

\* parseCoordinateToken on a token value with zero, one or two "+" in front
CParseCoordinateToken ==
    \E lit \in CoordLits, plus \in 0..2 :
      \E res \in {parseCoordinateToken(plus, lit, coordSystem)} :
        /\ calls < MaxCalls
        /\ coordSystem' = res.cs
        /\ call' = CallRecord(lit, res.isRelative, res.updatesPosition, res,
                              res.nodeName)
        /\ prevCall' = call
        /\ calls' = calls + 1
        /\ UNCHANGED <<probe, parseVars, moreVars>>

\* a node is registered the way parseNodeCommand does (part_003 410-418)
CRegisterNode ==
    \E center \in NodeCenters :
        /\ calls < MaxCalls
        /\ coordSystem' = registerNode(coordSystem, "a", center,
               calculateAnchors(center, "rectangle", DefaultWidth, DefaultHeight),
               "rectangle", DefaultWidth, DefaultHeight)
        /\ call' = NoCall
        /\ prevCall' = NoCall
        /\ calls' = calls + 1
        /\ UNCHANGED <<probe, parseVars, moreVars>>

CSetNamedCoordinate ==
    \E point \in NamedPoints :
        /\ calls < MaxCalls
        /\ coordSystem' = setNamedCoordinate(coordSystem, "c", point)
        /\ call' = NoCall
        /\ prevCall' = NoCall
        /\ calls' = calls + 1
        /\ UNCHANGED <<probe, parseVars, moreVars>>

CReset ==
    /\ calls < MaxCalls
    /\ coordSystem' = reset(coordSystem)
    /\ call' = NoCall
    /\ prevCall' = NoCall
    /\ calls' = calls + 1
    /\ UNCHANGED <<probe, parseVars, moreVars>>

NextCoord ==
    \/ CParseCoordinate
    \/ CParseCoordinateToken
    \/ CRegisterNode
    \/ CSetNamedCoordinate
    \/ CReset

SpecCoord == InitCoord /\ [][NextCoord]_vars

\* the last call resolved ++(dx,dy) with numbers dx, dy
IsAdvance(c) ==
    /\ c # NoCall
    /\ c.isRelative
    /\ c.updatePosition
    /\ c.lit.kind = "tuple"
    /\ Len(c.lit.parts) = 2
    /\ \A i \in 1..2 : IsNumeric(c.lit.parts[i])

Offset(c) == Point(NumericValue(c.lit.parts[1]), NumericValue(c.lit.parts[2]))

\* C2: with the cursor at P, however P was established, resolving ++(dx,dy)
\* returns P+(dx,dy) and leaves the cursor at P+(dx,dy).
C2_AdvanceFromCursor ==
    IsAdvance(call) =>
        /\ call.point = PointAdd(call.before.currentPosition, Offset(call))
        /\ coordSystem.currentPosition = call.point

\* C3: resolving a coordinate with updatePosition=false changes neither
\* the 2D cursor, the 3D cursor nor the two tables, and resolving the same
\* literal twice in a row that way returns the same point twice.
C3_NoUpdateLeavesState ==
    (call # NoCall /\ ~call.updatePosition) =>
        /\ coordSystem.currentPosition = call.before.currentPosition
        /\ coordSystem.currentPosition3D = call.before.currentPosition3D
        /\ coordSystem.nodes = call.before.nodes
        /\ coordSystem.namedCoordinates = call.before.namedCoordinates
        /\ (prevCall # NoCall /\ ~prevCall.updatePosition
              /\ prevCall.lit = call.lit /\ prevCall.isRelative = call.isRelative)
             => call.point = prevCall.point

\* a bare +(dx,dy) resolved twice in a row away from the origin
C3_Witness ==
    /\ call # NoCall /\ prevCall # NoCall
    /\ ~call.updatePosition /\ ~prevCall.updatePosition
    /\ call.isRelative /\ prevCall.isRelative
    /\ call.lit = Tuple(<<Num(1), Num(0)>>) /\ prevCall.lit = call.lit
    /\ call.before.currentPosition # Pt(0, 0)
    /\ call.point = PointAdd(call.before.currentPosition, Pt(1, 0))

\* C15: in every state of the CoordinateSystem the 2D cursor is the
\* projection of the 3D cursor: every coordinate form that moves the cursor
\* writes both
C15_CursorsAgree ==
    coordSystem.currentPosition =
        project3D(coordSystem, coordSystem.currentPosition3D.x,
                  coordSystem.currentPosition3D.y, coordSystem.currentPosition3D.z)


-----------------------------------------------------------------------------
(* SpecBoundary: one rectangle node, one target, asked of both              *)
(* implementations of getNodeBoundaryPoint.                                  *)

MaxTarget == 3

ProbeCenters == {Pt(0, 0), Pt(1, -1)}
ProbeSizes == {<<1, 2>>, R(1), R(2), R(3)}
ProbeTargets == {Pt(i, j) : i, j \in (0 - MaxTarget)..MaxTarget}

InitBoundary ==
    /\ coordSystem = NewCoordinateSystem
    /\ call = NoCall
    /\ prevCall = NoCall
    /\ calls = 0
    /\ ParseIdle
    /\ MoreIdle
    /\ \E center \in ProbeCenters, width \in ProbeSizes, height \in ProbeSizes,
          target \in ProbeTargets :
           probe = [center |-> center, width |-> width, height |-> height,
                    target |-> target, asked |-> FALSE,
                    fromCoordSystem |-> Null, fromRenderer |-> Null]

\* the node is registered (parser) and measured (renderer) with the same
\* centre and size, and both are asked for the boundary point towards target
AskBoundary ==
    /\ probe # NoCall
    /\ ~probe.asked
    /\ \E cs \in {registerNode(coordSystem, "n", probe.center,
                     calculateAnchors(probe.center, "rectangle", probe.width, probe.height),
                     "rectangle", probe.width, probe.height)},
          metrics \in {MapSet(EmptyMap, "n",
                     [center |-> probe.center, width |-> probe.width,
                      height |-> probe.height, shape |-> "rectangle"])} :
           /\ coordSystem' = cs
           /\ probe' = [probe EXCEPT
                  !.asked = TRUE,
                  !.fromCoordSystem = CSBoundaryPoint(cs, "n", probe.target),
                  !.fromRenderer = RendererBoundaryPoint(metrics, "n", probe.center,
                                                         probe.target)]
    /\ UNCHANGED <<call, prevCall, calls, parseVars, moreVars>>

NextBoundary == AskBoundary

SpecBoundary == InitBoundary /\ [][NextBoundary]_vars

StrictlyOutside(q) ==
    \/ RLt(RHalf(q.width), RAbs(RSub(q.target.x, q.center.x)))
    \/ RLt(RHalf(q.height), RAbs(RSub(q.target.y, q.center.y)))

OnEdge(q, p) ==
    LET ax == RAbs(RSub(p.x, q.center.x))
        ay == RAbs(RSub(p.y, q.center.y))
    IN  \/ ax = RHalf(q.width) /\ RLe(ay, RHalf(q.height))
        \/ ay = RHalf(q.height) /\ RLe(ax, RHalf(q.width))

\* p lies on the ray from the centre through the target, beyond the centre:
\* p - center is parallel to target - center and points the same way
OnRay(q, p) ==
    LET dx == RSub(q.target.x, q.center.x)
        dy == RSub(q.target.y, q.center.y)
        px == RSub(p.x, q.center.x)
        py == RSub(p.y, q.center.y)
    IN  /\ RMul(dx, py) = RMul(dy, px)
        /\ RLt(R(0), RAdd(RMul(dx, px), RMul(dy, py)))

\* C10: for a rectangle node of positive size and a target strictly outside
\* it, getNodeBoundaryPoint returns a point of the ray from the centre to
\* the target that lies on one of the four edges; for the centre as target
\* it returns the centre; both implementations return the same point.
C10_BoundaryOnEdge ==
    (probe # NoCall /\ probe.asked) =>
        /\ StrictlyOutside(probe) =>
             /\ OnEdge(probe, probe.fromCoordSystem)
             /\ OnRay(probe, probe.fromCoordSystem)
        /\ probe.target = probe.center => probe.fromCoordSystem = probe.center
        /\ probe.fromRenderer = probe.fromCoordSystem

\* a target up and to the left of a wide node: the ray leaves by the left edge
C10_Witness ==
    /\ probe # NoCall /\ probe.asked
    /\ StrictlyOutside(probe)
    /\ RLt(probe.target.x, probe.center.x)
    /\ RLt(probe.center.y, probe.target.y)
    /\ probe.fromCoordSystem.x = RSub(probe.center.x, RHalf(probe.width))
    /\ RLt(probe.fromCoordSystem.y, RAdd(probe.center.y, RHalf(probe.height)))


-----------------------------------------------------------------------------
(* SpecParse: parse() on a document, one pass of its loop at a time, then   *)
(* Renderer.render on what it returned.  A document is the token list the   *)
(* Lexer makes of the input (renderer.js 2154-2239): it ends with EOF.      *)

LINE_TO == Tok("LINE_TO", "--")
CURVE_TO == Tok("CURVE_TO", "..")
TO == Tok("TO", "to")
CYCLE == Tok("CYCLE", "cycle")
CIRCLE == Tok("CIRCLE", "circle")
ARC == Tok("ARC", "arc")
GRID == Tok("GRID", "grid")
RECTANGLE == Tok("RECTANGLE", "rectangle")
NODE == Tok("NODE", "node")
AT == Tok("AT", "at")
AND == Tok("AND", "and")
CONTROLS == Tok("CONTROLS", "controls")
SEMICOLON == Tok("SEMICOLON", ";")
COMMA == Tok("COMMA", ",")
EQUALS == Tok("EQUALS", "=")
PLUS == Tok("PLUS", "+")
SLASH == Tok("SLASH", "/")
DOT == Tok("DOT", ".")
OPTION_START == Tok("OPTION_START", "[")
OPTION_END == Tok("OPTION_END", "]")

P(i, j) == Coord(Tuple(<<Num(i), Num(j)>>))
N(w) == Coord(Name(Word(w)))

\* all token lists of a length up to n over a set of tokens
ListsUpTo(S, n) == UNION {[1..k -> S] : k \in 0..n}

\* \node (name) at (i,j) {A};
NodeStatement(name, i, j) ==
    <<Cmd(cmdNode), N(name), AT, P(i, j), Str(TextOf("A")), SEMICOLON>>

\* 1. Any tokens: every list of up to MaxSoup tokens, alone or after a node
MaxSoup == 3

SoupTokens ==
    {Cmd(cmdDraw), Cmd(cmdNode), P(1, 0), N("a"), LINE_TO, TO, NODE, SEMICOLON,
     PLUS, AT, CIRCLE}

SoupDocs ==
    {prelude \o body \o <<EOFToken>> :
        prelude \in {<<>>, NodeStatement("a", 2, 1)},
        body \in ListsUpTo(SoupTokens, MaxSoup)}

\* 2. Line chains: \draw p0 -- p1 -- ... -- pn, followed by a tail
MaxChain == 3

PathPoints == {<<0, 0>>, <<2, 0>>, <<2, 1>>}

RECURSIVE ChainTokens(_)
ChainTokens(points) ==
    IF Len(points) = 1 THEN <<P(points[1][1], points[1][2])>>
    ELSE ChainTokens(SubSeq(points, 1, Len(points) - 1))
         \o <<LINE_TO, P(points[Len(points)][1], points[Len(points)][2])>>

CycleTail == <<LINE_TO, CYCLE, SEMICOLON>>
BrokenTails ==
    {<<>>, <<LINE_TO>>, <<LINE_TO, SEMICOLON>>, <<EQUALS, P(1, 1), SEMICOLON>>,
     <<LINE_TO, LINE_TO, P(1, 1), SEMICOLON>>}
Tails == {CycleTail, <<SEMICOLON>>} \cup BrokenTails

Chains == UNION {[1..k -> PathPoints] : k \in 1..(MaxChain + 1)}

PathDoc(points, tail) ==
    <<Cmd(cmdDraw)>> \o ChainTokens(points) \o tail \o <<EOFToken>>

PathDocs == {PathDoc(points, tail) : points \in Chains, tail \in Tails}
BrokenDocs == {PathDoc(points, tail) : points \in Chains, tail \in BrokenTails}

\* 3. Nodes a, b, c and one path between them:
\*    \draw start connector end; or \draw start connector end -- third;
NodePlaces == {<<3, 0>>, <<3, 1>>} \X {<<3, 3>>, <<6, 0>>}

NodePrelude(place) ==
    NodeStatement("a", 0, 0) \o NodeStatement("b", place[1][1], place[1][2])
    \o NodeStatement("c", place[2][1], place[2][2])

CurvedTo ==
    <<TO, OPTION_START, Ident("out"), EQUALS, Number(0), COMMA, Ident("in"),
      EQUALS, Number(180), OPTION_END>>
Controls1 == <<CURVE_TO, CONTROLS, P(1, 1), CURVE_TO>>
Controls2 == <<CURVE_TO, CONTROLS, P(1, 1), AND, P(2, 1), CURVE_TO>>
Connectors == {<<LINE_TO>>, <<TO>>, CurvedTo, Controls1, Controls2, <<>>}

EndPoints == {<<N("a")>>, <<N("b")>>, <<N("c")>>, <<P(1, 2)>>}
Thirds == {<<>>} \cup {<<LINE_TO>> \o e : e \in EndPoints}

NodeDoc(place, start, connector, finish, third) ==
    NodePrelude(place) \o <<Cmd(cmdDraw)>> \o start \o connector \o finish
    \o third \o <<SEMICOLON, EOFToken>>

NodeDocs ==
    {NodeDoc(place, start, connector, finish, third) :
        place \in NodePlaces, start \in EndPoints \cup {<<>>},
        connector \in Connectors, finish \in EndPoints, third \in Thirds}

\* 4. Statements that throw, followed by one that does not
Throwers ==
    {<<Cmd(cmdDraw), NODE, N("m"), Str(TextOf("A")), LINE_TO, P(1, 1), SEMICOLON>>,
     <<Cmd(cmdDraw)>> \o CurvedTo \o <<P(1, 1), SEMICOLON>>,
     NodeStatement("a", 2, 1) \o <<Cmd(cmdDraw), LINE_TO, N("a"), LINE_TO,
                                   P(1, 1), SEMICOLON>>,
     NodeStatement("a", 2, 1) \o <<Cmd(cmdDraw), CURVE_TO, CONTROLS, P(1, 1), AND,
                                   CURVE_TO, N("a"), SEMICOLON>>}

ThrowDocs ==
    {thrower \o <<Cmd(cmdDraw), P(0, 0), LINE_TO, P(1, 1), SEMICOLON, EOFToken>> :
        thrower \in Throwers}

\* 4b. The same, followed by a path with an option block and two segments:
\*     \draw[red, thick] (0,0) -- (1,1) -- (2,1);
OptionPathDocs ==
    {thrower \o <<Cmd(cmdDraw), OPTION_START, Ident("red"), COMMA, Ident("thick"),
                  OPTION_END, P(0, 0), LINE_TO, P(1, 1), LINE_TO, P(2, 1),
                  SEMICOLON, EOFToken>> :
        thrower \in Throwers}

\* 4c. A command that moves the cursor, followed by a path command whose
\*     first coordinate is relative: \draw (2,1) -- (2,0); \fill ++(1,1) -- ++(1,0);
CursorMovers ==
    {<<Cmd(cmdDraw), P(2, 1), LINE_TO, P(2, 0), SEMICOLON>>,
     <<Cmd(cmdDraw), Coord(Tuple(<<Num(1), Num(0), Num(1)>>)), LINE_TO, P(2, 0),
       SEMICOLON>>,
     NodeStatement("a", 2, 1),
     NodeStatement("a", 2, 1)
         \o <<Cmd(cmdDraw), P(0, 0), LINE_TO, Coord(Anchor(Word("a"), "north")),
              SEMICOLON>>,
     <<Cmd(cmdCoordinate), N("q"), AT, P(2, 1), SEMICOLON>>,
     <<Cmd(cmdCoordinate), N("q"), AT, P(2, 1), SEMICOLON, Cmd(cmdDraw), N("q"),
       LINE_TO, P(0, 0), SEMICOLON>>}

PathCommands == {cmdDraw, cmdFill, cmdFilldraw, cmdPath}

RelativeStarts ==
    {<<PLUS, PLUS, P(1, 1), LINE_TO, PLUS, PLUS, P(1, 0)>>,
     <<PLUS, P(1, 1), LINE_TO, P(2, 1)>>,
     <<PLUS, PLUS, Coord(Tuple(<<Num(1), Num(0), Num(1)>>)), LINE_TO, PLUS,
       PLUS, P(1, 0)>>}

RelativeDocs ==
    {mover \o <<Cmd(cmd)>> \o start \o <<SEMICOLON, EOFToken>> :
        mover \in CursorMovers, cmd \in PathCommands, start \in RelativeStarts}

\* 5. \foreach \v in {values} {body}, after a picture with or without a
\*    style and before a command or none.  The brace content of the values
\*    is given by its items and that of the body by its tokens: the parser
\*    reads nothing else of them.
ForeachVars == {<<"x">>, <<"n">>}

ValueLists ==
    {<<<<Num(0)>>, <<Num(1)>>, <<Num(2)>>>>,
     <<<<Num(1)>>, <<NumUnit(2, "cm")>>>>,
     <<<<Word("u")>>, <<Word("w")>>>>,
     <<<<Num(2)>>>>,
     <<>>}

BodyKinds == {"circle", "node", "coordinate", "sharednode", "styled"}

Body(kind, v) ==
    CASE kind = "circle" ->
           <<Cmd(cmdDraw), Coord(Tuple(<<Var(v), Num(0)>>)), CIRCLE,
             Coord(Name(Dec(1, 5))), SEMICOLON>>
      [] kind = "node" ->
           <<Cmd(cmdNode), AT, Coord(Tuple(<<Var(v), Num(0)>>)),
             Str(BraceText(<<<<Var(v)>>>>, <<Cmd(v)>>)), SEMICOLON>>
      [] kind = "coordinate" ->
           <<Cmd(cmdDraw), N("q"), LINE_TO, P(0, 0), SEMICOLON,
             Cmd(cmdCoordinate), N("q"), AT, Coord(Tuple(<<Var(v), Var(v)>>)),
             SEMICOLON>>
      [] kind = "sharednode" ->
           <<Cmd(cmdDraw), N("k"), LINE_TO, P(0, 3), SEMICOLON,
             Cmd(cmdNode), N("k"), AT, Coord(Tuple(<<Var(v), Num(0)>>)),
             Str(TextOf("A")), SEMICOLON>>
      [] kind = "broken" ->
           <<Cmd(cmdDraw)>> \o CurvedTo
           \o <<Coord(Tuple(<<Var(v), Num(1)>>)), SEMICOLON>>
      [] OTHER ->
           <<Cmd(cmdDraw), OPTION_START, Ident("s"), OPTION_END, P(0, 0),
             LINE_TO, Coord(Tuple(<<Var(v), Num(1)>>)), SEMICOLON>>

\* the number of commands in the body
BodyCommands(kind) == IF kind \in {"coordinate", "sharednode"} THEN 2 ELSE 1

\* \begin{tikzpicture}[s/.style={red}]
StylePrelude ==
    <<Cmd(cmdBegin), Str(TextOf("tikzpicture")), OPTION_START, Ident("s"), SLASH,
      DOT, Ident("style"), EQUALS, Str(TextOf("red")), OPTION_END>>

Preludes == {<<>>, StylePrelude}

AfterCoordinate == <<Cmd(cmdDraw), N("q"), LINE_TO, P(0, 0), SEMICOLON>>
AfterNode == <<Cmd(cmdDraw), N("k"), LINE_TO, P(0, 3), SEMICOLON>>
Afters == {<<>>, AfterCoordinate, AfterNode}

ForeachStatement(v, items, body) ==
    <<Cmd(cmdForeach), Cmd(v), Ident("in"), Str(BraceText(items, <<>>)),
      Str(BraceText(<<>>, body))>>

ForeachDoc(prelude, v, items, kind, after) ==
    prelude \o ForeachStatement(v, items, Body(kind, v)) \o after \o <<EOFToken>>

\* \foreach \x/\y in {1/2cm, 3/4} { \draw (\x,\y) circle (1); }
PairDoc ==
    <<Cmd(cmdForeach), Cmd(<<"x">>), SLASH, Cmd(<<"y">>), Ident("in"),
      Str(BraceText(<<<<Num(1), NumUnit(2, "cm")>>, <<Num(3), Num(4)>>>>, <<>>)),
      Str(BraceText(<<>>,
          <<Cmd(cmdDraw), Coord(Tuple(<<Var(<<"x">>), Var(<<"y">>)>>)), CIRCLE,
            Coord(Name(Num(1))), SEMICOLON>>)),
      EOFToken>>

ForeachDocs ==
    {ForeachDoc(prelude, v, items, kind, after) :
        prelude \in Preludes, v \in ForeachVars, items \in ValueLists,
        kind \in BodyKinds, after \in Afters}
    \cup {PairDoc}

\* 6. \foreach with a body whose statement throws: \draw to[out=0,in=180] (\v,1);
BrokenForeachDocs ==
    {ForeachDoc(<<>>, v, items, "broken", after) :
        v \in ForeachVars, items \in ValueLists, after \in {<<>>, AfterNode}}

Documents ==
    SoupDocs \cup PathDocs \cup NodeDocs \cup ThrowDocs \cup OptionPathDocs
    \cup RelativeDocs \cup ForeachDocs \cup BrokenForeachDocs

\* what the browser measures for a node's text, in TikZ units: a short text
\* (the node comes out 1 wide, 1 high) and a long one (2 wide, 3/2 high)
TextBoxes ==
    {[width |-> <<1, 5>>, height |-> <<1667, 5000>>],
     [width |-> <<6667, 5000>>, height |-> <<4167, 5000>>]}

CoordIdle ==
    /\ coordSystem = NewCoordinateSystem
    /\ call = NoCall
    /\ prevCall = NoCall
    /\ calls = 0
    /\ probe = NoCall

\* new Parser(input) (part_003 37-46)
InitParse ==
    /\ CoordIdle
    /\ MoreIdle
    /\ \E doc \in Documents : parser = NewParser(doc, NewCoordinateSystem, EmptyMap)
    /\ document = <<>>
    /\ pc = "parsing"
    /\ nodeMetrics = EmptyMap
    /\ rendered = <<>>
    /\ step = NoCall

\* one pass of the while loop of parse() (part_003 79-101)
ParseStatement ==
    /\ pc = "parsing"
    /\ PeekType(parser) # "EOF"
    /\ \E r \in {ParseStep(parser)} :
           /\ parser' = r.p
           /\ document' = document \o r.out
           /\ pc' = IF r.escaped THEN "thrown" ELSE "parsing"
           /\ step' = [before |-> parser, threw |-> r.threw]
    /\ UNCHANGED <<coordVars, probe, moreVars, nodeMetrics, rendered>>

\* return { ast: document, errors, coordSystem } (part_003 103)
ParseReturn ==
    /\ pc = "parsing"
    /\ PeekType(parser) = "EOF"
    /\ pc' = "returned"
    /\ UNCHANGED <<coordVars, probe, moreVars, parser, document, nodeMetrics, rendered, step>>

NodeNameSet(commands) ==
    {NamedNodes(commands)[i].name : i \in 1..Len(NamedNodes(commands))}

\* Renderer.render(ast) (renderer.js 31-74): the first pass, then the
\* commands in order
Render ==
    /\ pc = "returned"
    /\ \E boxes \in [NodeNameSet(document) -> TextBoxes] :
       \E metrics \in {measureAllNodes(document, boxes)} :
             /\ nodeMetrics' = metrics
             /\ rendered' = [i \in 1..Len(document) |->
                               RenderCommand(metrics, document[i])]
    /\ pc' = "rendered"
    /\ UNCHANGED <<coordVars, probe, moreVars, parser, document, step>>

NextParse ==
    \/ ParseStatement
    \/ ParseReturn
    \/ Render

SpecParse == InitParse /\ [][NextParse]_vars

\* C1: no exception raised while a statement is parsed leaves parse(): it is
\* caught, an error with a source position is appended to errors, and the
\* loop goes on; the loop never reads beyond the EOF token.
C1_ParseCatches ==
    pc # "idle" =>
        /\ pc # "thrown"
        /\ parser.position <= Len(parser.tokens)
        /\ (step # NoCall /\ step.threw) =>
             /\ Len(parser.errors) > Len(step.before.errors)
             /\ parser.errors[Len(parser.errors)].message = "TypeError"
             /\ parser.errors[Len(parser.errors)].position \in 1..Len(parser.tokens)
             /\ parser.position > step.before.position

\* a statement threw, the statement after it was parsed, parse() returned
C1_Witness ==
    /\ pc = "returned"
    /\ parser.tokens \in ThrowDocs
    /\ \E i \in 1..Len(parser.errors) : parser.errors[i].message = "TypeError"
    /\ document # <<>>
    /\ document[Len(document)].type = "DRAW"
    /\ Len(document[Len(document)].segments) = 1

NodeNames == {"a", "b", "c"}

\* C4: a segment from a plain node reference to a plain node reference
\* stores both node names and the provisional boundary points, whatever
\* connects the two: --, to, to[out=,in=], .. controls .., or nothing.
C4_NodeNamesStored ==
    \A place \in NodePlaces, connector \in Connectors, s \in NodeNames, f \in NodeNames :
        (pc = "returned"
           /\ parser.tokens = NodeDoc(place, <<N(s)>>, connector, <<N(f)>>, <<>>))
        => /\ Len(document) = 4
           /\ Len(document[4].segments) = 1
           /\ LET seg == document[4].segments[1]
                  cs == parser.coordSystem
              IN  /\ {"fromNodeName", "toNodeName"} \subseteq DOMAIN seg
                  /\ seg.fromNodeName = s
                  /\ seg.toNodeName = f
                  /\ seg.from = CSBoundaryPoint(cs, s, cs.nodes[f].center)
                  /\ seg.to = CSBoundaryPoint(cs, f, cs.nodes[s].center)

\* a measured node as the rectangle of a boundary question, seen from target
Measured(m, target) ==
    [center |-> m.center, width |-> m.width, height |-> m.height,
     target |-> target]

\* C5: for every LINE_SEGMENT whose two node names have metrics (the nodes
\* at different places), the end points the renderer emits are the points
\* where the line between the two measured centres crosses the measured
\* boundary of either node; this includes the later segments of a chain.
C5_RenderedEndpoints ==
    pc = "rendered" =>
        \A i \in 1..Len(document) :
            "segments" \in DOMAIN document[i] =>
                \A j \in 1..Len(document[i].segments) :
                    LET seg == document[i].segments[j]
                    IN  (/\ seg.type = "LINE_SEGMENT"
                         /\ HasMetrics(nodeMetrics, seg, "fromNodeName")
                         /\ HasMetrics(nodeMetrics, seg, "toNodeName")
                         /\ nodeMetrics[seg.fromNodeName].center
                              # nodeMetrics[seg.toNodeName].center)
                        => LET mf == nodeMetrics[seg.fromNodeName]
                               mt == nodeMetrics[seg.toNodeName]
                               r == rendered[i][j]
                           IN  /\ OnEdge(Measured(mf, mt.center), r.fromPoint)
                               /\ OnRay(Measured(mf, mt.center), r.fromPoint)
                               /\ OnEdge(Measured(mt, mf.center), r.toPoint)
                               /\ OnRay(Measured(mt, mf.center), r.toPoint)

\* value lists of plain numbers
NumberLists == {items \in ValueLists : \A k \in 1..Len(items) : items[k][1].t = "num"}

ValueOf(items, k) == R(items[k][1].v)

\* C6: what iteration k of a \foreach registers (a named coordinate, a
\* node) is what a reference resolves to in iteration k+1 and in the command
\* after the loop, and a style defined before the loop is expanded inside it.
C6_SharedTables ==
    \A items \in NumberLists, prelude \in Preludes :
      LET n == Len(items)
          x == <<"x">>
      IN
      /\ (pc = "returned"
            /\ parser.tokens = ForeachDoc(prelude, x, items, "coordinate",
                                          AfterCoordinate))
         => /\ Len(document) = 2 * n + 1
            /\ \A k \in 1..n :
                 /\ document[2 * k].type = "COORDINATE"
                 /\ document[2 * k].position = Point(ValueOf(items, k), ValueOf(items, k))
                 /\ document[2 * k + 1].segments[1].from = document[2 * k].position
      /\ (pc = "returned"
            /\ parser.tokens = ForeachDoc(prelude, x, items, "sharednode", AfterNode))
         => /\ Len(document) = 2 * n + 1
            /\ \A k \in 1..n :
                 /\ document[2 * k].type = "NODE"
                 /\ document[2 * k].position = Point(ValueOf(items, k), R(0))
                 /\ document[2 * k + 1].segments[1].fromNodeName = "k"
                 /\ document[2 * k + 1].segments[1].from =
                      RectBoundaryCS(document[2 * k].position, DefaultWidth,
                                     DefaultHeight, Pt(0, 3))
      /\ (pc = "returned"
            /\ parser.tokens = ForeachDoc(StylePrelude, x, items, "styled", <<>>))
         => /\ Len(document) = n
            /\ \A k \in 1..n : document[k].options = <<Opt("red")>>

\* three iterations: the draw of the third starts at the coordinate the
\* second registered, the draw after the loop at the one the third registered
C6_Witness ==
    /\ pc = "returned"
    /\ parser.tokens = ForeachDoc(<<>>, <<"x">>,
                                  <<<<Num(0)>>, <<Num(1)>>, <<Num(2)>>>>,
                                  "coordinate", AfterCoordinate)
    /\ Len(document) = 7
    /\ document[5].segments[1].from = Pt(1, 1)
    /\ document[7].segments[1].from = Pt(2, 2)

\* the text of the k-th value as the Lexer reads it inside braces
ValueText(atom) == BraceText(<<<<atom>>>>, AtomTokens(atom))

\* C7: a \foreach over n values with a body of m commands adds n*m commands
\* to the document, in iteration order, the k-th copy with the variable
\* replaced by the k-th value: circles centred at (value, 0) for the body
\* \draw (\v,0) circle (0.2); nodes at (value, 0) showing the value for the
\* body \node at (\v,0) {\v};
C7_ForeachCopies ==
    \A v \in ForeachVars, items \in ValueLists, kind \in BodyKinds :
        (pc = "returned" /\ parser.tokens = ForeachDoc(<<>>, v, items, kind, <<>>))
        => /\ Len(document) = Len(items) * BodyCommands(kind)
           /\ (kind = "circle" /\ items \in NumberLists) =>
                \A k \in 1..Len(items) :
                    /\ document[k].type = "DRAW"
                    /\ document[k].segments =
                         <<[type |-> "CIRCLE", center |-> Point(ValueOf(items, k), R(0)),
                            radius |-> <<1, 5>>]>>
           /\ kind = "node" =>
                \A k \in 1..Len(items) :
                    /\ document[k].type = "NODE"
                    /\ document[k].text = ValueText(items[k][1])
                    /\ items \in NumberLists =>
                         document[k].position = Point(ValueOf(items, k), R(0))

Pts(points, i) == Pt(points[i][1], points[i][2])

\* C8: \draw (p0) -- (p1) -- ... -- (pn) -- cycle; gives one path command
\* with n LINE_SEGMENTs, the i-th from p(i-1) to p(i), and then one CYCLE.
C8_ClosedChain ==
    \A points \in Chains :
        (pc = "returned" /\ parser.tokens = PathDoc(points, CycleTail))
        => /\ Len(document) = 1
           /\ document[1].type = "DRAW"
           /\ parser.errors = <<>>
           /\ LET segments == document[1].segments
                  n == Len(points) - 1
              IN  /\ Len(segments) = n + 1
                  /\ \A i \in 1..n :
                       /\ segments[i].type = "LINE_SEGMENT"
                       /\ segments[i].from = Pts(points, i)
                       /\ segments[i].to = Pts(points, i + 1)
                  /\ segments[n + 1].type = "CYCLE"

\* the triangle (0,0) -- (2,0) -- (2,1) -- cycle, parsed
C8_Witness ==
    /\ pc = "returned"
    /\ parser.tokens = PathDoc(<<<<0, 0>>, <<2, 0>>, <<2, 1>>>>, CycleTail)
    /\ Len(document) = 1
    /\ Len(document[1].segments) = 3
    /\ document[1].segments[2].from = Pt(2, 0)
    /\ document[1].segments[3].type = "CYCLE"

-----------------------------------------------------------------------------
(* SpecStyle: Style objects are made by new Style(), clone() and             *)
(* parseOptions(options, base), the options being what parseOptionsBlock     *)
(* makes of an option block; a caller then changes a style it holds in       *)
(* place.                                                                    *)

\* how many Style objects are made
MaxStyles == 2

Bar == Tok("ERROR", "|")
Minus == Tok("ERROR", "-")
Less == Tok("ERROR", "<")
Greater == Tok("ERROR", ">")

\* option blocks, without their brackets
OptionBlocks ==
    {<<Minus, Greater, COMMA, Ident("red")>>,
     <<Ident("red"), COMMA, Minus, Greater>>,
     <<Less, Minus, COMMA, Ident("draw"), EQUALS, Ident("blue")>>,
     <<Ident("dashed"), COMMA, Ident("very"), Ident("thick"), COMMA,
       Ident("rotate"), EQUALS, Number(90)>>,
     <<Ident("decorate"), COMMA, Ident("decoration"), EQUALS,
       Str(BraceText(<<<<Word("zigzag")>>, <<Word("amplitude"), Word("="), Num(2)>>>>, <<>>))>>,
     <<Ident("xshift"), EQUALS, Number(2), Ident("pt"), COMMA, Ident("line"), Ident("width")>>,
     <<Bar, Minus, Greater, COMMA, Ident("nocolor"), COMMA, Ident("fill")>>}

\* the options parseOptionsBlock returns for a block
OptionsOf(block) ==
    parseOptionsBlock(NewParser(<<OPTION_START>> \o block \o <<OPTION_END>>,
                                NewCoordinateSystem, EmptyMap)).options

IsStyle(h, ref) == "stroke" \in DOMAIN h[ref]
Styles(h) == {ref \in 1..Len(h) : IsStyle(h, ref)}

\* a style with the arrays and the object it refers to
StyleValue(h, ref) ==
    [style |-> h[ref],
     dashPattern |-> IF h[ref].dashPattern = NullRef THEN Null ELSE h[h[ref].dashPattern],
     transformations |-> h[h[ref].transformations],
     decoration |-> IF h[ref].decoration = NullRef THEN Null ELSE h[h[ref].decoration]]

StyleCall(op, this, options, res, thrown) ==
    [op |-> op, this |-> this, options |-> options, ref |-> res,
     thrown |-> thrown, before |-> heap]

\* a path command with an option block, parsed and rendered
DrawCall(options, res, thrown, doStroke, doFill, attrs) ==
    [op |-> "draw", this |-> NullRef, options |-> options, ref |-> res,
     thrown |-> thrown, before |-> heap, doStroke |-> doStroke,
     doFill |-> doFill, attrs |-> attrs]

InitStyle ==
    /\ CoordIdle
    /\ ParseIdle
    /\ heap = <<>>
    /\ styleCall = NoCall
    /\ renderer = NoCall
    /\ sample = NoCall
    /\ editor = NoCall

\* new Style()
SNewStyle ==
    /\ \E r \in {NewStyle(heap)} :
        /\ Cardinality(Styles(r.heap)) <= MaxStyles
        /\ heap' = r.heap
        /\ styleCall' = StyleCall("new", NullRef, <<>>, r.ref, FALSE)
    /\ UNCHANGED <<coordVars, probe, parseVars, renderer, sample, editor>>

\* style.clone()
SClone ==
    /\ \E this \in Styles(heap) : \E r \in {clone(heap, this)} :
        /\ Cardinality(Styles(r.heap)) <= MaxStyles
        /\ heap' = r.heap
        /\ styleCall' = StyleCall("clone", this, <<>>, r.ref, FALSE)
    /\ UNCHANGED <<coordVars, probe, parseVars, renderer, sample, editor>>

\* parseOptions(options, baseStyle), baseStyle a style or null
SParseOptions ==
    /\ \E block \in OptionBlocks, baseStyle \in Styles(heap) \cup {NullRef} :
       \E r \in {parseOptions(heap, OptionsOf(block), baseStyle)} :
        /\ Cardinality(Styles(r.heap)) <= MaxStyles
        /\ heap' = r.heap
        /\ styleCall' = StyleCall("parseOptions", baseStyle, OptionsOf(block),
                                  r.ref, r.thrown)
    /\ UNCHANGED <<coordVars, probe, parseVars, renderer, sample, editor>>

\* a caller adds a transformation to a style: style.transformations.push(t)
SAddTransformation ==
    /\ \E this \in Styles(heap) :
        /\ Len(heap[heap[this].transformations].items) < 2
        /\ heap' = PushTransformation(heap, this, [type |-> "rotate", angle |-> R(180)])
        /\ styleCall' = StyleCall("push", this, <<>>, this, FALSE)
    /\ UNCHANGED <<coordVars, probe, parseVars, renderer, sample, editor>>

\* a caller changes the decoration of a style: style.decoration.type = "coil"
SChangeDecoration ==
    /\ \E this \in Styles(heap) :
        /\ heap[this].decoration # NullRef
        /\ heap[heap[this].decoration].type # "coil"
        /\ heap' = [heap EXCEPT ![heap[this].decoration].type = "coil"]
        /\ styleCall' = StyleCall("decoration", this, <<>>, this, FALSE)
    /\ UNCHANGED <<coordVars, probe, parseVars, renderer, sample, editor>>

\* a path command with an option block and a non-empty path: parseDrawCommand
\* makes its style (part_003 340-353), renderCommand chooses doStroke and
\* doFill by the command (renderer.js 292-302) and renderDraw applies the
\* style to the path element (renderer.js 313-319, 445-451).  When
\* parseOptions throws, parse() records the error and nothing is rendered.
SDraw ==
    /\ \E block \in OptionBlocks, doStroke \in BOOLEAN, doFill \in BOOLEAN :
       \E r \in {parseOptions(heap, OptionsOf(block), NullRef)} :
        /\ Cardinality(Styles(r.heap)) <= MaxStyles
        /\ heap' = r.heap
        /\ styleCall' =
             DrawCall(OptionsOf(block), r.ref, r.thrown, doStroke, doFill,
                      IF r.thrown THEN EmptyMap
                      ELSE applyStyle(r.heap, r.ref, doStroke, doFill,
                                      StrokeColor(r.heap, r.ref)))
    /\ UNCHANGED <<coordVars, probe, parseVars, renderer, sample, editor>>

NextStyle ==
    \/ SNewStyle
    \/ SDraw
    \/ SClone
    \/ SParseOptions
    \/ SAddTransformation
    \/ SChangeDecoration

SpecStyle == InitStyle /\ [][NextStyle]_vars

\* C11: the clone of clone() has its own transformations array, dashPattern
\* array and decoration object; adding a transformation to a style or
\* changing its decoration changes no other style; and parseOptions(options,
\* base) leaves every field of base, and what base refers to, as it was
C11_CloneIsolates ==
    styleCall # NoCall =>
        LET before == styleCall.before
            this == styleCall.this
            res == styleCall.ref
        IN  /\ styleCall.op = "clone" =>
                /\ heap[res].transformations # heap[this].transformations
                /\ heap[this].dashPattern # NullRef =>
                       heap[res].dashPattern \notin {NullRef, heap[this].dashPattern}
                /\ heap[this].decoration # NullRef =>
                       heap[res].decoration \notin {NullRef, heap[this].decoration}
                /\ StyleValue(heap, this) = StyleValue(before, this)
            /\ styleCall.op \in {"push", "decoration"} =>
                \A other \in Styles(before) \ {this} :
                    StyleValue(heap, other) = StyleValue(before, other)
            /\ styleCall.op = "parseOptions" /\ this # NullRef =>
                StyleValue(heap, this) = StyleValue(before, this)

\* the decoration of a style made by clone() or by parseOptions from a base
\* has been changed, and the style it was made from still has its own
C11_Witness ==
    /\ styleCall # NoCall
    /\ styleCall.op = "decoration"
    /\ \E base \in Styles(heap) \ {styleCall.this} :
        /\ base < styleCall.this
        /\ heap[base].decoration # NullRef
        /\ heap[heap[base].decoration].type = "zigzag"
        /\ heap[heap[styleCall.this].decoration].amplitude
               = heap[heap[base].decoration].amplitude

\* C12: the options "->" and "red", in either order, give a style with
\* arrowEnd ">" and stroke "#ff0000", whatever the base style; and the
\* stroked path of a command with these options carries the attribute
\* marker-end = url(#arrow-standard-end-ff0000)
OptionTexts(options) == [i \in 1..Len(options) |-> PiecesText(options[i])]
ArrowRed == {<<"->", "red">>, <<"red", "->">>}

C12_RedArrow ==
    (styleCall # NoCall /\ styleCall.op \in {"parseOptions", "draw"}
        /\ OptionTexts(styleCall.options) \in ArrowRed) =>
        /\ ~styleCall.thrown
        /\ heap[styleCall.ref].arrowEnd = ">"
        /\ heap[styleCall.ref].stroke = "#ff0000"
        /\ (styleCall.op = "draw" /\ styleCall.doStroke) =>
               /\ MapHas(styleCall.attrs, "marker-end")
               /\ styleCall.attrs["marker-end"] = "url(#arrow-standard-end-ff0000)"
               /\ styleCall.attrs["stroke"] = "#ff0000"

\* a stroked path with the options red and -> has been rendered
C12_Witness ==
    /\ styleCall # NoCall
    /\ styleCall.op = "draw"
    /\ styleCall.doStroke
    /\ OptionTexts(styleCall.options) = <<"red", "->">>
    /\ MapHas(styleCall.attrs, "marker-end")

-----------------------------------------------------------------------------
(* SpecPlot: the two plot samplers, on the options of a command              *)

MaxSamples == 4
MaxDomain == 2

NumberPiece(i) == [s |-> ToString(i), n |-> i]
DomainOption(min, max) ==
    <<Piece("domain"), Piece("="), NumberPiece(min), Piece(":"), NumberPiece(max)>>
SamplesOption(n) == <<Piece("samples"), Piece("="), NumberPiece(n)>>

\* option lists: at most one domain and one samples option, in either order,
\* and an option that is neither
PlotOptionLists ==
    LET domains == {<<>>} \cup {<<DomainOption(min, max)>> :
                                  min, max \in (0 - MaxDomain)..MaxDomain}
        counts == {<<>>} \cup {<<SamplesOption(n)>> : n \in 0..MaxSamples}
    IN  {d \o c : d \in domains, c \in counts}
        \cup {c \o <<Opt("thick")>> \o d : d \in domains, c \in counts}

AxisLimits == {NotANumber, R(0), R(MaxDomain)}

InitPlot ==
    /\ CoordIdle
    /\ ParseIdle
    /\ MoreIdle

\* \draw[options] plot (\x, {\x});
Plot ==
    /\ sample = NoCall
    /\ \E options \in PlotOptionLists :
        sample' = [routine |-> "parsePlot", options |-> options,
                   xMin |-> NotANumber, xMax |-> NotANumber,
                   result |-> parsePlot(options)]
    /\ UNCHANGED <<coordVars, probe, parseVars, heap, styleCall, renderer, editor>>

\* \addplot[options] {x}; in an axis with the limits xMin and xMax
AddPlot ==
    /\ sample = NoCall
    /\ \E options \in PlotOptionLists, xMin \in AxisLimits, xMax \in AxisLimits :
        sample' = [routine |-> "parseAddPlot", options |-> options,
                   xMin |-> xMin, xMax |-> xMax,
                   result |-> parseAddPlot(options, xMin, xMax)]
    /\ UNCHANGED <<coordVars, probe, parseVars, heap, styleCall, renderer, editor>>

NextPlot == Plot \/ AddPlot

SpecPlot == InitPlot /\ [][NextPlot]_vars

\* the x values of a sampling are n finite numbers, from min in equal
\* increasing steps, ending at max when there are two or more
EvenlySpaced(r) ==
    LET n == r.samples
        xs == [k \in 1..Len(r.points) |-> r.points[k].x]
    IN  /\ Len(xs) = n
        /\ \A k \in 1..n : IsFinite(xs[k])
        /\ xs[1] = r.domain.min
        /\ n >= 2 => xs[n] = r.domain.max
        /\ \A k \in 1..(n - 1) : RLt(xs[k], xs[k + 1])
        /\ \A k \in 2..(n - 1) : RSub(xs[k + 1], xs[k]) = RSub(xs[k], xs[k - 1])

\* C13: for n >= 1 samples and a domain with min < max both samplers give
\* exactly n points whose x values are finite, evenly spaced and increasing,
\* the first being min and, for n >= 2, the last being max; without options
\* (and without axis limits) there are 100 of them from 0 to 1
C13_EvenSamples ==
    sample # NoCall =>
        /\ (sample.result.samples >= 1
              /\ RLt(sample.result.domain.min, sample.result.domain.max)) =>
               EvenlySpaced(sample.result)
        /\ (sample.options = <<>> /\ parseRange(sample.xMin, sample.xMax) = NoDomain) =>
               /\ sample.result.samples = 100
               /\ sample.result.domain = Domain(0, 1)

-----------------------------------------------------------------------------
(* SpecTicks: generateTicks on ranges of several sizes                       *)

MaxTick == 4
DesiredTicks == 6

\* the sizes of the ranges, in millionths: 0.0000001, 0.000001, 0.001, 1, 10
TickScales == {<<1, 10>>, R(1), R(1000), R(1000000), R(10000000)}

TickRanges ==
    {[min |-> RMul(R(a), s), max |-> RMul(R(b), s)] :
        a \in (0 - 2)..MaxTick, b \in (0 - 2)..MaxTick, s \in TickScales}
    \cup {[min |-> R(0), max |-> R(97000000)]}

InitTicks ==
    /\ CoordIdle
    /\ ParseIdle
    /\ MoreIdle

\* this.generateTicks(range, 6) (renderer.js 602-603)
Ticks ==
    /\ sample = NoCall
    /\ \E range \in TickRanges :
        sample' = [routine |-> "generateTicks", range |-> range,
                   result |-> generateTicks(range, DesiredTicks)]
    /\ UNCHANGED <<coordVars, probe, parseVars, heap, styleCall, renderer, editor>>

NextTicks == Ticks

SpecTicks == InitTicks /\ [][NextTicks]_vars

\* C14: for a range with max > min and 6 desired ticks the step is 1, 2, 5
\* or 10 times a power of ten, and the ticks are strictly increasing, each
\* at least range.min and at most range.max + step/2
C14_NiceTicks ==
    (sample # NoCall /\ RLt(sample.range.min, sample.range.max)) =>
        LET r == sample.result
        IN  /\ \E j \in MinExponent..8 : r.magnitude = Pow10(j)
            /\ \E m \in {1, 2, 5, 10} : r.dx = RMul(R(m), r.magnitude)
            /\ \A k \in 1..Len(r.ticks) :
                /\ RLe(sample.range.min, r.ticks[k])
                /\ RLe(r.ticks[k], RAdd(sample.range.max, RHalf(r.dx)))
                /\ k > 1 => RLt(r.ticks[k - 1], r.ticks[k])

\* the NODE commands named n in front of command i: the last of them is the
\* node the name denotes when command i is parsed
NodesBefore(i, n) ==
    {k \in 1..(i - 1) : document[k].type = "NODE" /\ document[k].name = n}

Last(S) == CHOOSE k \in S : \A other \in S : other <= k

\* the node n as it was when command i was parsed, as the rectangle of a
\* boundary question; the nodes of one name have the same text and options
\* in every document here, hence the same measured size
NodeThen(i, n, target) ==
    [center |-> document[Last(NodesBefore(i, n))].position,
     width |-> nodeMetrics[n].width, height |-> nodeMetrics[n].height,
     target |-> target]

\* C16: also when a name is given to several nodes, the end of a line
\* segment at a node name lies on the boundary of the node that had the name
\* when the segment was parsed
C16_BoundaryOfNodeThen ==
    pc = "rendered" =>
        \A i \in 1..Len(document) :
            "segments" \in DOMAIN document[i] =>
                \A j \in 1..Len(document[i].segments) :
                    LET seg == document[i].segments[j]
                        r == rendered[i][j]
                    IN  /\ (/\ seg.type = "LINE_SEGMENT"
                            /\ HasMetrics(nodeMetrics, seg, "fromNodeName")
                            /\ NodesBefore(i, seg.fromNodeName) # {}
                            /\ StrictlyOutside(NodeThen(i, seg.fromNodeName, seg.to)))
                           => OnEdge(NodeThen(i, seg.fromNodeName, seg.to), r.fromPoint)
                        /\ (/\ seg.type = "LINE_SEGMENT"
                            /\ HasMetrics(nodeMetrics, seg, "toNodeName")
                            /\ NodesBefore(i, seg.toNodeName) # {}
                            /\ StrictlyOutside(NodeThen(i, seg.toNodeName, seg.from)))
                           => OnEdge(NodeThen(i, seg.toNodeName, seg.from), r.toPoint)

\* the errors the sub-parsers of a \foreach record, iteration by iteration
\* (the loop of ForeachLoop, keeping result.errors instead of the commands)
RECURSIVE ChildErrors(_, _, _, _)
ChildErrors(p, varNames, items, body) ==
    IF items = <<>> THEN <<>>
    ELSE LET item == Head(items)
             substituted == IF Len(varNames) > 1 THEN SubstAll(body, varNames, item, 1)
                            ELSE SubstTokens(body, varNames[1], ForeachValue(item))
             result == ParseLoop(NewParser(Append(substituted, EOFToken),
                                           p.coordSystem, p.styles), <<>>)
         IN  result.p.errors
             \o ChildErrors([p EXCEPT !.coordSystem = result.p.coordSystem,
                                      !.styles = result.p.styles],
                            varNames, Tail(items), body)

Messages(errors) == {errors[k].message : k \in 1..Len(errors)}

\* C17: every error a sub-parser records in the body of a \foreach, in any
\* iteration, is among the errors parse() returns
C17_ForeachErrorsKept ==
    \A v \in ForeachVars, items \in ValueLists, kind \in BodyKinds \cup {"broken"} :
        (pc = "returned" /\ parser.tokens = ForeachDoc(<<>>, v, items, kind, <<>>))
        => Messages(ChildErrors(NewParser(<<>>, NewCoordinateSystem, EmptyMap),
                                <<v>>, items, Body(kind, v)))
              \subseteq Messages(parser.errors)

-----------------------------------------------------------------------------
(* SpecRender: one Renderer renders one document after the other             *)
(* (renderer.js 11-74).  render() is followed through its passes: the nodes  *)
(* are measured and the bounds and the svg element made, then the commands   *)
(* are rendered one by one, then the arrow markers are added and the svg is  *)
(* returned.  Lengths are exact rationals, in TikZ units or in pixels.       *)

MaxRenders == 2

Scale == 50
Padding == 20
MinCanvas == 100
DefaultStroke == "#000000"

\* new Renderer() (renderer.js 12-24); before holds the node names
\* nodeMetrics had when the render under way was called
NewRenderer ==
    [usedColors |-> <<>>, nodeMetrics |-> EmptyMap, bounds |-> Null,
     svg |-> Null, ast |-> <<>>, phase |-> "new", next |-> 0, renders |-> 0,
     before |-> {}]

\* usedColors.add(color): a Set keeps the order of insertion
SetAdd(used, color) ==
    IF \E i \in 1..Len(used) : used[i] = color THEN used ELSE Append(used, color)

\* this.nodeMetrics.clear() (renderer.js 33), and a render that keeps the map
ClearMetrics_Keep(metrics) == metrics
ClearMetrics(metrics) == EmptyMap

\* the style of a path command, parseOptions(options) (part_003 344), and
\* style.stroke || this.defaultStroke (renderer.js 318)
CommandStroke(command) ==
    Let(parseOptions(<<>>, command.options, NullRef), LAMBDA r :
        IF r.heap[r.ref].stroke # "" THEN r.heap[r.ref].stroke ELSE DefaultStroke)

\* the ids of the markers of createArrowDefs(color) (index.js 508-530,
\* 562-758), in the order they are appended
ArrowNames == <<"standard", "stealth", "latex", "to", "bar", "reversed", "double">>

RECURSIVE ArrowIds(_, _)
ArrowIds(names, color) ==
    IF names = <<>> THEN <<>>
    ELSE <<"arrow-" \o Head(names) \o "-end-" \o ColorId(color),
           "arrow-" \o Head(names) \o "-start-" \o ColorId(color)>>
         \o ArrowIds(Tail(names), color)

createArrowDefs(color) == ArrowIds(ArrowNames, color)

\* addArrowDefs (renderer.js 1844-1852): the children of this.defs afterwards
RECURSIVE addArrowDefs(_, _)
addArrowDefs(defs, usedColors) ==
    IF usedColors = <<>> THEN defs
    ELSE addArrowDefs(defs \o createArrowDefs(Head(usedColors)), Tail(usedColors))

\* Math.cos and Math.sin of an angle in degrees that is a multiple of 90 (the
\* double results differ from these by less than 1e-15)
CosDeg(a) ==
    CASE a[1] % 360 = 0 -> R(1) [] a[1] % 360 = 180 -> R(-1)
      [] a[1] % 360 \in {90, 270} -> R(0)
SinDeg(a) ==
    CASE a[1] % 360 = 90 -> R(1) [] a[1] % 360 = 270 -> R(-1)
      [] a[1] % 360 \in {0, 180} -> R(0)

RMin(p, q) == IF RLe(p, q) THEN p ELSE q

StartBounds == [minX |-> R(-1), maxX |-> R(1), minY |-> R(-1), maxY |-> R(1)]

\* updateBounds (renderer.js 145-150)
updateBounds(b, x, y) ==
    [minX |-> RMin(b.minX, x), maxX |-> RMax(b.maxX, x),
     minY |-> RMin(b.minY, y), maxY |-> RMax(b.maxY, y)]

UpdateIf(cond, b, point) ==
    IF cond THEN updateBounds(b, point.x, point.y) ELSE b

Has(item, field) == field \in DOMAIN item /\ item[field] # Null

\* updateNodeBounds (renderer.js 153-226) for a node with metrics and no
\* anchor: every node of the documents rendered here has a name, hence
\* metrics, and the parser gives a node no anchor field
updateNodeBounds(b, metrics, node) ==
    IF ~Has(node, "position") THEN b
    ELSE Let(RDiv(metrics[node.name].width, R(2)), LAMBDA w2 :
         Let(RDiv(metrics[node.name].height, R(2)), LAMBDA h2 :
             updateBounds(
                 updateBounds(b, RSub(node.position.x, w2), RSub(node.position.y, h2)),
                 RAdd(node.position.x, w2), RAdd(node.position.y, h2))))

\* const r = seg.radius || Math.max(seg.rx || 0, seg.ry || 0)
CenterRadius(seg) ==
    IF "radius" \in DOMAIN seg /\ seg.radius # R(0) THEN seg.radius
    ELSE RMax(IF "rx" \in DOMAIN seg THEN seg.rx ELSE R(0),
              IF "ry" \in DOMAIN seg THEN seg.ry ELSE R(0))

\* one segment in calculateBounds (renderer.js 249-277); the segments of this
\* model have no edge label and no plot points
SegmentBounds(b, metrics, seg) ==
    Let(IF seg.type = "NODE" THEN updateNodeBounds(b, metrics, seg) ELSE b, LAMBDA b1 :
    Let(UpdateIf(Has(seg, "from"), b1, seg.from), LAMBDA b2 :
    Let(UpdateIf(Has(seg, "to"), b2, seg.to), LAMBDA b3 :
    Let(IF Has(seg, "center")
        THEN updateBounds(
                 updateBounds(b3, RSub(seg.center.x, CenterRadius(seg)),
                              RSub(seg.center.y, CenterRadius(seg))),
                 RAdd(seg.center.x, CenterRadius(seg)),
                 RAdd(seg.center.y, CenterRadius(seg)))
        ELSE b3, LAMBDA b4 :
    Let(UpdateIf(Has(seg, "control1"), b4, seg.control1), LAMBDA b5 :
        UpdateIf(Has(seg, "control2"), b5, seg.control2))))))

RECURSIVE SegmentsBounds(_, _, _)
SegmentsBounds(b, metrics, segments) ==
    IF segments = <<>> THEN b
    ELSE SegmentsBounds(SegmentBounds(b, metrics, Head(segments)), metrics,
                        Tail(segments))

\* one command in calculateBounds (renderer.js 228-279).  The axes of this
\* model have no width, height, origin, title or label: they are 10 by 6 at
\* (0,0), with 0.6 for the tick labels.
CommandBounds(b, metrics, command) ==
    IF command.type = "AXIS"
    THEN updateBounds(updateBounds(b, <<-3, 5>>, <<-3, 5>>), R(10), R(6))
    ELSE
    Let(IF command.type = "NODE" /\ Has(command, "position")
        THEN updateNodeBounds(b, metrics, command)
        ELSE UpdateIf(Has(command, "position"), b, command.position), LAMBDA b1 :
        IF "segments" \in DOMAIN command
        THEN SegmentsBounds(b1, metrics, command.segments) ELSE b1)

RECURSIVE CommandsBounds(_, _, _)
CommandsBounds(b, metrics, commands) ==
    IF commands = <<>> THEN b
    ELSE CommandsBounds(CommandBounds(b, metrics, Head(commands)), metrics,
                        Tail(commands))

\* calculateBounds (renderer.js 142-290), with its margin of 0.5
calculateBounds(commands, metrics) ==
    Let(CommandsBounds(StartBounds, metrics, commands), LAMBDA b :
        [minX |-> RSub(b.minX, <<1, 2>>), maxX |-> RAdd(b.maxX, <<1, 2>>),
         minY |-> RSub(b.minY, <<1, 2>>), maxY |-> RAdd(b.maxY, <<1, 2>>)])

\* the svg element of render (renderer.js 40-50): its width and height in
\* pixels, no marker and no path yet; refs holds the marker-start and
\* marker-end attributes that applyStyle writes
NewSvg(bounds) ==
    [width |-> RMax(R(MinCanvas),
                    RAdd(RMul(RSub(bounds.maxX, bounds.minX), R(Scale)), R(2 * Padding))),
     height |-> RMax(R(MinCanvas),
                     RAdd(RMul(RSub(bounds.maxY, bounds.minY), R(Scale)), R(2 * Padding))),
     defs |-> <<>>, points |-> <<>>, refs |-> <<>>]

\* renderArc (renderer.js 1047-1074): the two points of the path data, in
\* TikZ units
renderArc(segment) ==
    Let(IF segment.rx # R(0) THEN segment.rx ELSE segment.radius, LAMBDA radius :
    Let(IF segment.ry # R(0) THEN segment.ry ELSE radius, LAMBDA radiusY :
    Let(RSub(segment.start.x, RMul(radius, CosDeg(segment.startAngle))), LAMBDA cx :
    Let(RSub(segment.start.y, RMul(radiusY, SinDeg(segment.startAngle))), LAMBDA cy :
        <<segment.start,
          Point(RAdd(cx, RMul(radius, CosDeg(segment.endAngle))),
                RAdd(cy, RMul(radiusY, SinDeg(segment.endAngle))))>>))))

\* the points renderDraw puts into the path data or into an element for one
\* segment (renderer.js 326-443, 900-912, 1026-1045), in TikZ units; a
\* circle by its four extreme points
SegmentPoints(metrics, segment) ==
    CASE segment.type = "LINE_SEGMENT" ->
           Let(RenderLine(metrics, segment), LAMBDA line :
               (IF line.fromPoint # Null THEN <<line.fromPoint>> ELSE <<>>)
               \o (IF line.toPoint # Null THEN <<line.toPoint>> ELSE <<>>))
      [] segment.type = "CURVE_SEGMENT" ->
           <<segment.from, segment.control1, segment.control2, segment.to>>
      [] segment.type = "ARC_SEGMENT" -> renderArc(segment)
      [] segment.type = "CIRCLE" ->
           <<Point(RSub(segment.center.x, segment.radius), segment.center.y),
             Point(RAdd(segment.center.x, segment.radius), segment.center.y),
             Point(segment.center.x, RSub(segment.center.y, segment.radius)),
             Point(segment.center.x, RAdd(segment.center.y, segment.radius))>>
      [] segment.type = "RECTANGLE" -> <<segment.from, segment.to>>
      [] OTHER -> <<>>

RECURSIVE PathPointsOf(_, _)
PathPointsOf(metrics, segments) ==
    IF segments = <<>> THEN <<>>
    ELSE SegmentPoints(metrics, Head(segments))
         \o PathPointsOf(metrics, Tail(segments))

IsPathCommand(command) == command.type \in {"DRAW", "FILL", "FILLDRAW", "PATH"}

\* toSvgX, toSvgY (renderer.js 1917-1924) and the translate of the main group
\* (renderer.js 53-57): where a point comes to lie on the canvas, in pixels
CanvasPoint(bounds, point) ==
    Point(RAdd(RMul(point.x, R(Scale)),
               RSub(R(Padding), RMul(bounds.minX, R(Scale)))),
          RAdd(RMul(RSub(bounds.maxY, point.y), R(Scale)), R(Padding)))

\* the marker attributes among the attributes applyStyle has set
MarkerRefs(attrs) ==
    (IF MapHas(attrs, "marker-end") THEN <<attrs["marker-end"]>> ELSE <<>>)
    \o (IF MapHas(attrs, "marker-start") THEN <<attrs["marker-start"]>> ELSE <<>>)

\* renderCommand and renderDraw (renderer.js 292-302, 313-451): the marker
\* attributes of the elements of a path command; every element of the
\* command is styled by the same call of applyStyle
CommandRefs(metrics, command) ==
    Let(parseOptions(<<>>, command.options, NullRef), LAMBDA r :
        IF PathPointsOf(metrics, command.segments) = <<>> THEN <<>>
        ELSE MarkerRefs(applyStyle(r.heap, r.ref,
                                   command.type \in {"DRAW", "FILLDRAW"},
                                   command.type \in {"FILL", "FILLDRAW"},
                                   CommandStroke(command))))

\* the plots of renderAxis (renderer.js 733-748): a plot with points whose
\* stroke is not "none" is styled by applyStyle(path, plot.style, true,
\* false, strokeColor).  plot.style is parseOptions(options) (pgfplots.js
\* 176).
RECURSIVE PlotRefs(_)
PlotRefs(plots) ==
    IF plots = <<>> THEN <<>>
    ELSE Let(parseOptions(<<>>, Head(plots).options, NullRef), LAMBDA r :
             IF Head(plots).points = <<>> \/ r.heap[r.ref].stroke = "none" THEN <<>>
             ELSE MarkerRefs(applyStyle(r.heap, r.ref, TRUE, FALSE,
                                        StrokeColor(r.heap, r.ref))))
         \o PlotRefs(Tail(plots))

\* parseBegin of the pgfplots module (pgfplots.js 250-264) for an axis
\* without options whose content is one \addplot[options] {x}; for each of
\* the option lists
AxisCommand(optionLists) ==
    [type |-> "AXIS", options |-> <<>>, legendEntries |-> <<>>,
     plots |-> [i \in 1..Len(optionLists) |->
                  [options |-> optionLists[i],
                   points |-> parseAddPlot(optionLists[i], NotANumber,
                                           NotANumber).points]]]

\* the documents the Renderer is given, as token lists
Stroked(command, color, path) ==
    <<Cmd(command), OPTION_START, Ident(color), OPTION_END>> \o path \o <<SEMICOLON>>

ArcOf(startAngle, endAngle, radius) ==
    <<ARC, OPTION_START, Ident("start"), Ident("angle"), EQUALS, Number(startAngle),
      COMMA, Ident("end"), Ident("angle"), EQUALS, Number(endAngle), COMMA,
      Ident("radius"), EQUALS, Number(radius), OPTION_END>>

RenderDocs ==
    {<<EOFToken>>,
     Stroked(cmdDraw, "red", <<P(0, 0), LINE_TO, P(1, 1)>>) \o <<EOFToken>>,
     Stroked(cmdDraw, "blue", <<P(0, 0)>> \o Controls2 \o <<P(3, 0)>>)
         \o Stroked(cmdFill, "red", <<P(1, 1), CIRCLE>>) \o <<EOFToken>>,
     NodeStatement("a", 0, 0) \o NodeStatement("b", 3, 1)
         \o <<Cmd(cmdDraw), N("a"), LINE_TO, N("b"), SEMICOLON, EOFToken>>,
     NodeStatement("a", 2, 1)
         \o <<Cmd(cmdPath), N("a"), LINE_TO, P(1, 2), NODE, N("m"),
              Str(TextOf("A")), SEMICOLON, EOFToken>>,
     NodeStatement("c", 1, 1)
         \o Stroked(cmdFilldraw, "blue", <<P(0, 0), RECTANGLE, P(2, 1)>>)
         \o <<EOFToken>>,
     Stroked(cmdDraw, "green", <<P(5, 5), ARC, OPTION_START, Ident("radius"),
                                 EQUALS, Number(1), OPTION_END>>) \o <<EOFToken>>,
     <<Cmd(cmdDraw), P(0, 0), LINE_TO, P(1, 0)>> \o ArcOf(0, 180, 2)
         \o <<SEMICOLON, EOFToken>>,
     <<Cmd(cmdDraw), P(0, 0)>> \o ArcOf(90, 270, 1) \o <<SEMICOLON, EOFToken>>}

\* parse(input).ast.commands (part_003 76-104, 1557-1560)
AstOf(doc) == ParseLoop(NewParser(doc, NewCoordinateSystem, EmptyMap), <<>>).commands

\* a path with an arrow tip, \draw[blue, ->] (0,0) -- (2,0);
ArrowDoc ==
    <<Cmd(cmdDraw), OPTION_START, Ident("blue"), COMMA, Minus, Greater,
      OPTION_END, P(0, 0), LINE_TO, P(2, 0), SEMICOLON, EOFToken>>

\* \addplot[red, ->, samples=2] {x}; and \addplot[blue, samples=2] {x};
ArrowPlot == OptionsOf(<<Ident("red"), COMMA, Minus, Greater>>) \o <<SamplesOption(2)>>
PlainPlot == <<Opt("blue"), SamplesOption(2)>>

RedLine == Stroked(cmdDraw, "red", <<P(0, 0), LINE_TO, P(1, 1)>>) \o <<EOFToken>>

\* the asts the Renderer is given: those of the documents, and three with an
\* axis, the last after a red line
RenderAsts ==
    {AstOf(doc) : doc \in RenderDocs \cup {ArrowDoc}}
    \cup {<<AxisCommand(<<ArrowPlot>>)>>, <<AxisCommand(<<PlainPlot>>)>>,
          AstOf(RedLine) \o <<AxisCommand(<<PlainPlot, ArrowPlot>>)>>}

InitRender ==
    /\ CoordIdle
    /\ ParseIdle
    /\ heap = <<>>
    /\ styleCall = NoCall
    /\ sample = NoCall
    /\ editor = NoCall
    /\ renderer = NewRenderer

\* render(ast), first part (renderer.js 31-58): the node metrics are cleared
\* and measured, the bounds calculated, the svg element and its defs made.
\* Every text of one document measures the same.
RenderMeasure ==
    /\ renderer.phase \in {"new", "returned"}
    /\ renderer.renders < MaxRenders
    /\ \E ast \in RenderAsts, box \in TextBoxes :
       \E metrics \in {MeasureNodes(NamedNodes(ast),
                                    [n \in NodeNameSet(ast) |-> box],
                                    ClearMetrics(renderer.nodeMetrics))} :
       \E bounds \in {calculateBounds(ast, metrics)} :
           renderer' = [renderer EXCEPT !.ast = ast, !.nodeMetrics = metrics,
                                        !.before = DOMAIN renderer.nodeMetrics,
                                        !.bounds = bounds, !.svg = NewSvg(bounds),
                                        !.phase = "commands", !.next = 1]
    /\ UNCHANGED <<coordVars, probe, parseVars, heap, styleCall, sample, editor>>

\* one pass of the loop over ast.commands (renderer.js 60-66): renderCommand
\* and, for a path command, renderDraw, which notes the stroke colour; for
\* an axis, renderAxis
RenderDraw ==
    /\ renderer.phase = "commands"
    /\ renderer.next <= Len(renderer.ast)
    /\ \E command \in {renderer.ast[renderer.next]} :
           renderer' =
               [renderer EXCEPT
                   !.usedColors = IF IsPathCommand(command)
                                  THEN SetAdd(@, CommandStroke(command)) ELSE @,
                   !.svg.points = IF IsPathCommand(command)
                                  THEN @ \o PathPointsOf(renderer.nodeMetrics,
                                                         command.segments)
                                  ELSE @,
                   !.svg.refs = CASE IsPathCommand(command) ->
                                       @ \o CommandRefs(renderer.nodeMetrics, command)
                                  [] command.type = "AXIS" -> @ \o PlotRefs(command.plots)
                                  [] OTHER -> @,
                   !.next = @ + 1]
    /\ UNCHANGED <<coordVars, probe, parseVars, heap, styleCall, sample, editor>>

\* the end of render (renderer.js 68-73): the arrow markers of the used
\* colours are added and the svg is returned
RenderReturn ==
    /\ renderer.phase = "commands"
    /\ renderer.next > Len(renderer.ast)
    /\ renderer' = [renderer EXCEPT
                       !.svg.defs = addArrowDefs(@, renderer.usedColors),
                       !.phase = "returned", !.renders = @ + 1]
    /\ UNCHANGED <<coordVars, probe, parseVars, heap, styleCall, sample, editor>>

NextRender ==
    \/ RenderMeasure
    \/ RenderDraw
    \/ RenderReturn

SpecRender == InitRender /\ [][NextRender]_vars

\* the stroke colours of the path commands of an ast
StrokeColors(ast) ==
    {CommandStroke(ast[i]) : i \in {j \in 1..Len(ast) : IsPathCommand(ast[j])}}

\* the usedColors a new Renderer has after the commands of an ast
RECURSIVE FreshColors(_, _)
FreshColors(ast, used) ==
    IF ast = <<>> THEN used
    ELSE FreshColors(Tail(ast),
                     IF IsPathCommand(Head(ast))
                     THEN SetAdd(used, CommandStroke(Head(ast))) ELSE used)

\* C18: the markers of a returned svg are those of the stroke colours of the
\* ast of this call, one for each arrow type, direction and colour, and they
\* are the markers a new Renderer makes for the same ast
C18_MarkersOfThisAst ==
    renderer.phase = "returned" =>
        LET defs == renderer.svg.defs
        IN  /\ {defs[i] : i \in 1..Len(defs)} =
                   {"arrow-" \o ArrowNames[k] \o "-" \o side \o "-" \o ColorId(color) :
                        k \in 1..Len(ArrowNames), side \in {"end", "start"},
                        color \in StrokeColors(renderer.ast)}
            /\ \A i, j \in 1..Len(defs) : defs[i] = defs[j] => i = j
            /\ defs = addArrowDefs(<<>>, FreshColors(renderer.ast, <<>>))

\* C19: from the first command rendered to the return of render(ast), the
\* node metrics are those of the named nodes of this ast, command nodes and
\* inline nodes: every such name has an entry, measured at a node of this
\* ast, and no entry is left from an earlier render
C19_MetricsOfThisAst ==
    renderer.phase \in {"commands", "returned"} =>
        /\ DOMAIN renderer.nodeMetrics = NodeNameSet(renderer.ast)
        /\ \A n \in DOMAIN renderer.nodeMetrics :
               \E i \in 1..Len(NamedNodes(renderer.ast)) :
                   /\ NamedNodes(renderer.ast)[i].name = n
                   /\ NamedNodes(renderer.ast)[i].position =
                          renderer.nodeMetrics[n].center

\* a second render returned, of an ast with a command node and an inline
\* node, on a Renderer that had measured a node this ast does not have
C19_Witness ==
    /\ renderer.phase = "returned"
    /\ renderer.before \ NodeNameSet(renderer.ast) # {}
    /\ \E i \in 1..Len(renderer.ast) :
           renderer.ast[i].type = "NODE" /\ renderer.ast[i].name \in DOMAIN renderer.nodeMetrics
    /\ \E i \in 1..Len(renderer.ast) :
           /\ "segments" \in DOMAIN renderer.ast[i]
           /\ \E j \in 1..Len(renderer.ast[i].segments) :
                  /\ renderer.ast[i].segments[j].type = "NODE"
                  /\ renderer.ast[i].segments[j].name \in DOMAIN renderer.nodeMetrics

\* the extreme points of the ellipse an arc lies on (renderArc's centre and
\* radii)
ArcExtent(segment) ==
    LET radius == IF segment.rx # R(0) THEN segment.rx ELSE segment.radius
        radiusY == IF segment.ry # R(0) THEN segment.ry ELSE radius
        cx == RSub(segment.start.x, RMul(radius, CosDeg(segment.startAngle)))
        cy == RSub(segment.start.y, RMul(radiusY, SinDeg(segment.startAngle)))
    IN  {Point(RSub(cx, radius), cy), Point(RAdd(cx, radius), cy),
         Point(cx, RSub(cy, radiusY)), Point(cx, RAdd(cy, radiusY))}

\* the arcs of the path commands rendered so far
ArcsRendered ==
    {renderer.ast[i].segments[j] :
        <<i, j>> \in {<<i, j>> \in (1..Len(renderer.ast)) \X (1..4) :
                       /\ i < renderer.next
                       /\ IsPathCommand(renderer.ast[i])
                       /\ j <= Len(renderer.ast[i].segments)
                       /\ renderer.ast[i].segments[j].type = "ARC_SEGMENT"}}

InBounds(bounds, point) ==
    /\ RLe(bounds.minX, point.x) /\ RLe(point.x, bounds.maxX)
    /\ RLe(bounds.minY, point.y) /\ RLe(point.y, bounds.maxY)

OnCanvas(svg, point) ==
    /\ RLe(R(0), point.x) /\ RLe(point.x, svg.width)
    /\ RLe(R(0), point.y) /\ RLe(point.y, svg.height)

\* C20: the bounds of a render contain every point emitted for its path
\* commands (segment ends, control points, circle extents and, for an arc,
\* its start, its end and its radius extent), and every emitted point lies
\* on the canvas, within [0, width] x [0, height]
C20_EmittedInBounds ==
    renderer.phase \in {"commands", "returned"} =>
        /\ \A k \in 1..Len(renderer.svg.points) :
               /\ InBounds(renderer.bounds, renderer.svg.points[k])
               /\ OnCanvas(renderer.svg,
                           CanvasPoint(renderer.bounds, renderer.svg.points[k]))
        /\ \A arc \in ArcsRendered : \A point \in ArcExtent(arc) :
               InBounds(renderer.bounds, point)

\* C21: every marker-start and marker-end attribute written during a render
\* refers to a marker that is in the defs of the svg the render returns, also
\* on the paths of the plots of an axis
C21_MarkersDefined ==
    renderer.phase = "returned" =>
        \A k \in 1..Len(renderer.svg.refs) :
            \E i \in 1..Len(renderer.svg.defs) :
                renderer.svg.refs[k] = "url(#" \o renderer.svg.defs[i] \o ")"

-----------------------------------------------------------------------------
(* SpecGrid: renderGrid (renderer.js 1076-1108) draws the grid of a GRID     *)
(* segment, one pass of one of its two loops at a time.                      *)

\* a double that is added to again and again stops changing once it is large
\* against the summand; here a loop variable stops changing at -MaxGrid
MaxGrid == 4

\* p <= q of JavaScript: false when one of them is NaN
JsLe(p, q) ==
    /\ ~IsNaN(p) /\ ~IsNaN(q)
    /\ IF IsFinite(p) /\ IsFinite(q) THEN RLe(p, q)
       ELSE IF IsFinite(p) THEN q[1] > 0
            ELSE IF IsFinite(q) THEN p[1] < 0 ELSE p[1] <= q[1]

\* x += step
LoopAdd(x, dx) ==
    Let(JsAdd(x, dx), LAMBDA sum :
        IF IsFinite(sum) /\ RLt(sum, R(0 - MaxGrid)) THEN x ELSE sum)

\* \draw from grid[step] to; with the step option as given
GridSteps ==
    {<<>>,
     <<OPTION_START, Ident("step"), OPTION_END>>,
     <<OPTION_START, Ident("step"), EQUALS, Ident("s"), OPTION_END>>}
    \cup {<<OPTION_START, Ident("step"), EQUALS, Number(n), OPTION_END>> :
            n \in {0, 0 - 1, 1, 2}}

GridCorners == {<<0, 0>>, <<1, 1>>} \X {<<2, 1>>, <<0, 2>>, <<3, 3>>, <<-1, 0>>}

GridDocs ==
    {<<Cmd(cmdDraw), P(c[1][1], c[1][2]), GRID>> \o s
     \o <<P(c[2][1], c[2][2]), SEMICOLON, EOFToken>> :
        c \in GridCorners, s \in GridSteps}

\* the GRID segments parsePath makes of them
GridSegments == {AstOf(doc)[1].segments[1] : doc \in GridDocs}

InitGrid ==
    /\ CoordIdle
    /\ ParseIdle
    /\ MoreIdle

\* renderDraw comes to a GRID segment (renderer.js 414-416): renderGrid
\* starts its first loop at minX
GridCall ==
    /\ sample = NoCall
    /\ \E segment \in GridSegments :
           sample' = [routine |-> "renderGrid", segment |-> segment,
                      loop |-> "vertical",
                      at |-> RMin(segment.from.x, segment.to.x)]
    /\ UNCHANGED <<coordVars, probe, parseVars, heap, styleCall, renderer, editor>>

\* for (let x = minX; x <= maxX; x += step): one line, or the end of the loop
GridVertical ==
    /\ sample # NoCall
    /\ sample.loop = "vertical"
    /\ sample' =
         IF JsLe(sample.at, RMax(sample.segment.from.x, sample.segment.to.x))
         THEN [sample EXCEPT !.at = LoopAdd(@, sample.segment.step)]
         ELSE [sample EXCEPT !.loop = "horizontal",
                             !.at = RMin(sample.segment.from.y, sample.segment.to.y)]
    /\ UNCHANGED <<coordVars, probe, parseVars, heap, styleCall, renderer, editor>>

\* for (let y = minY; y <= maxY; y += step), then return elements
GridHorizontal ==
    /\ sample # NoCall
    /\ sample.loop = "horizontal"
    /\ sample' =
         IF JsLe(sample.at, RMax(sample.segment.from.y, sample.segment.to.y))
         THEN [sample EXCEPT !.at = LoopAdd(@, sample.segment.step)]
         ELSE [sample EXCEPT !.loop = "returned"]
    /\ UNCHANGED <<coordVars, probe, parseVars, heap, styleCall, renderer, editor>>

NextGrid ==
    \/ GridCall
    \/ GridVertical
    \/ GridHorizontal

\* a loop that is entered goes on: the program runs
SpecGrid == InitGrid /\ [][NextGrid]_vars /\ WF_vars(NextGrid)

\* C22: renderGrid returns for every GRID segment, also when its step is 0,
\* negative or NaN
C22_GridTerminates == <>(sample # NoCall /\ sample.loop = "returned")

\* the positions at which the loop of parsePath tests its condition, and the
\* position at which it is left by break or by an exception
RECURSIVE PathMarks(_, _, _)
PathMarks(p, firstPoint, firstNodeName) ==
    IF PeekType(p) \in {"SEMICOLON", "EOF"} THEN <<p.position>>
    ELSE LET r == parsePathSegment(p, firstPoint, firstNodeName)
         IN  IF r.thrown \/ r.segment = NoSegment THEN <<p.position>>
             ELSE <<p.position>>
                  \o (IF "to" \in DOMAIN r.segment /\ r.segment.to # Null
                      THEN PathMarks(r.p, r.segment.to, r.toNodeName)
                      ELSE PathMarks(r.p, firstPoint, NoName))

\* the same for the path of the path command that starts at p0
PathMarksOf(p0) ==
    LET p1 == parseOptionsBlock(advance(p0)).p
        reset1 == [p1 EXCEPT !.coordSystem = reset(@)]
        hasFirst == PeekType(reset1) = "COORDINATE"
        res == parseCoordinateToken(0, peek(reset1).value, reset1.coordSystem)
    IN  IF hasFirst
        THEN PathMarks([advance(reset1) EXCEPT !.coordSystem = res.cs],
                       res.point, res.nodeName)
        ELSE PathMarks(reset1, Null, NoName)

\* the positions at which the loop of parseOptionsBlock tests its condition
RECURSIVE OptionMarks(_)
OptionMarks(p) ==
    IF PeekType(p) \in {"OPTION_END", "EOF"} THEN <<p.position>>
    ELSE <<p.position>> \o OptionMarks(advance(p))

\* the same for the skip after an exception
RECURSIVE SkipMarks(_)
SkipMarks(p) ==
    IF PeekType(p) \in {"SEMICOLON", "EOF"} THEN <<p.position>>
    ELSE <<p.position>> \o SkipMarks(advance(p))

Increasing(marks) == \A k \in 1..(Len(marks) - 1) : marks[k] < marks[k + 1]

IsPathStatement(p) ==
    /\ PeekType(p) = "COMMAND"
    /\ peek(p).value \in {cmdDraw, cmdFill, cmdFilldraw, cmdPath}

NoSemicolon(tokens, a, b) == \A k \in a..b : tokens[k].type # "SEMICOLON"

\* C24: a pass of the loop of parse() in which parseCommand throws records
\* one error for the exception, leaves the parser just behind the first ';'
\* that follows the start of the statement (or on EOF when there is none),
\* adds nothing to the document and takes nothing from it, and the loop goes
\* on with the statement that follows
C24_SkipsOneStatement ==
    [][(parser' # parser /\ step'.threw) =>
           /\ Len(parser'.errors) = Len(parseCommand(parser).p.errors) + 1
           /\ parser'.errors[Len(parser'.errors)].position
                  = parseCommand(parser).p.position
           /\ NoSemicolon(parser.tokens, parser.position, parser'.position - 2)
           /\ \/ parser.tokens[parser'.position - 1].type = "SEMICOLON"
              \/ /\ PeekType(parser') = "EOF"
                 /\ NoSemicolon(parser.tokens, parser.position,
                                parser'.position - 1)
           /\ document' = document
           /\ pc' = "parsing"]_vars

\* parse() has returned with one error, and the statement that follows the
\* ';' of the failing one is the last command of the document
C24_Witness ==
    /\ pc = "returned"
    /\ step # NoCall
    /\ ~step.threw
    /\ Len(parser.errors) = 1
    /\ parser.errors[1].position < step.before.position
    /\ parser.tokens[step.before.position - 1].type = "SEMICOLON"
    /\ Len(document) >= 1
    /\ document[Len(document)].type = "DRAW"

\* the parser with the cursor of a new CoordinateSystem, all else the same
AtOrigin(p) ==
    [p EXCEPT !.coordSystem.currentPosition = NewCoordinateSystem.currentPosition,
              !.coordSystem.currentPosition3D = NewCoordinateSystem.currentPosition3D]

\* the statement starts with a relative coordinate: \draw +(..) or \draw ++(..)
StartsRelative(p) ==
    /\ IsPathStatement(p)
    /\ PeekType(advance(p)) = "PLUS"
    /\ PeekType(CountPlus(advance(p)).p) = "COORDINATE"
    /\ CountPlus(advance(p)).plus <= 2

\* the first coordinate of such a statement, resolved from the origin
FirstFromOrigin(p) ==
    Let(CountPlus(advance(p)), LAMBDA c :
        parseCoordinateToken(c.plus, peek(c.p).value,
                             AtOrigin(p).coordSystem).point)

\* C25: a path command is parsed as if the cursor were the origin, in 2D and
\* in 3D, whatever the cursor was before it; a relative coordinate that is
\* the first of the path is the offset itself
C25_PathStartsAtOrigin ==
    (pc # "idle" /\ step # NoCall /\ IsPathStatement(step.before)) =>
        /\ parseCommand(step.before).out = parseCommand(AtOrigin(step.before)).out
        /\ parseCommand(step.before).thrown
               = parseCommand(AtOrigin(step.before)).thrown
        /\ parseCommand(step.before).p.coordSystem
               = parseCommand(AtOrigin(step.before)).p.coordSystem
        /\ (StartsRelative(step.before) /\ ~step.threw) =>
               /\ document # <<>>
               /\ document[Len(document)].segments # <<>>
               /\ document[Len(document)].segments[1].to
                      = FirstFromOrigin(step.before)

\* a path command that starts with ++(1,1) has been parsed with the cursor at
\* another place than the origin, in 2D and in 3D
C25_Witness ==
    /\ pc = "returned"
    /\ step # NoCall
    /\ StartsRelative(step.before)
    /\ step.before.coordSystem.currentPosition # Pt(0, 0)
    /\ step.before.coordSystem.currentPosition3D # Point3(R(0), R(0), R(0))
    /\ document[Len(document)].segments[1].to = Pt(1, 1)

\* the text of the call has none of the forms of the grammar, or it names a
\* node or a coordinate that the tables before the call do not have
Unresolvable(c) ==
    /\ c # NoCall
    /\ CASE c.lit.kind = "tuple" ->
              \/ Len(c.lit.parts) \notin {2, 3}
              \/ \E i \in 1..Len(c.lit.parts) : ~IsNumeric(c.lit.parts[i])
         [] c.lit.kind = "name" ->
              \/ ~IsName(c.lit.name)
              \/ /\ ~MapHas(c.before.nodes, c.lit.name.w)
                 /\ ~MapHas(c.before.namedCoordinates, c.lit.name.w)
         [] c.lit.kind = "anchor" ->
              \/ ~IsName(c.lit.node)
              \/ ~MapHas(c.before.nodes, c.lit.node.w)
         [] c.lit.kind = "other" -> TRUE
         [] OTHER -> FALSE

\* C26: a coordinate string that has no form of the grammar or that names an
\* unknown node or coordinate resolves to the cursor and leaves the whole
\* CoordinateSystem as it was, with updatePosition true as with false; the
\* call returns (parseCoordinate has no error list to add to)
C26_FallbackKeepsCursor ==
    Unresolvable(call) =>
        /\ call.point = call.before.currentPosition
        /\ coordSystem = call.before

\* an unknown name resolved with updatePosition true, the cursor away from
\* the origin
C26_Witness ==
    /\ Unresolvable(call)
    /\ call.updatePosition
    /\ call.lit = Name(Word("u"))
    /\ call.before.currentPosition # Pt(0, 0)
    /\ call.point = call.before.currentPosition

-----------------------------------------------------------------------------
(* SpecExpand: one call of expandStyleReferences (part_003 805-820), frame   *)
(* by frame: the call recurses for every option that is the name of a style, *)
(* so the frames of the calls in progress are the state.                     *)

\* the frames the engine has room for: one more call is a RangeError
MaxDepth == 5

StyleNames == {"s", "t", "u"}

\* the option s=1, whose key is the name of a style
KeyedS == <<Piece("s"), Piece("="), Piece("1")>>

\* what a style can be defined as
StyleDefinitions ==
    {<<Opt("red")>>, <<Opt("t")>>, <<Opt("s")>>, <<Opt("u"), Opt("thick")>>,
     <<KeyedS, Opt("t")>>}

\* the tables parsePictureOptions can leave in this.styles
StyleTables == UNION {[S -> StyleDefinitions] : S \in SUBSET StyleNames}

\* the option lists of the call
ExpandOptions == ListsUpTo({Opt("red"), KeyedS, Opt("s"), Opt("t"), Opt("u")}, 2)

\* this.styles.get(opt) for no style at all
StyleOptions_Empty(styles, opt) == <<>>

\* const styleOptions = this.styles.get(opt)
StyleOptions(styles, opt) == styles[opt[1].s]

\* the result of the inner call put in front of what was expanded before
PushAll_InFront(expanded, result) == result \o expanded

\* expanded.push(...result)
PushAll(expanded, result) == expanded \o result

\* a call: its argument, the index of its loop, its array expanded
Frame(options) == [options |-> options, i |-> 1, expanded |-> <<>>]

Top(stack) == stack[Len(stack)]
Pop(stack) == SubSeq(stack, 1, Len(stack) - 1)

Expanding ==
    /\ sample # NoCall
    /\ sample.phase = "running"

InitExpand ==
    /\ CoordIdle
    /\ ParseIdle
    /\ MoreIdle

\* parseOptionsBlock calls expandStyleReferences(options) (part_003 802)
ExpandCall ==
    /\ sample = NoCall
    /\ \E styles \in StyleTables, options \in ExpandOptions :
           sample' = [routine |-> "expandStyleReferences", styles |-> styles,
                      options |-> options, stack |-> <<Frame(options)>>,
                      phase |-> "running", result |-> <<>>]
    /\ UNCHANGED <<coordVars, probe, parseVars, heap, styleCall, renderer, editor>>

\* else expanded.push(opt)
ExpandKeep ==
    /\ Expanding
    /\ Top(sample.stack).i <= Len(Top(sample.stack).options)
    /\ ~IsStyleReference(sample.styles,
                         Top(sample.stack).options[Top(sample.stack).i])
    /\ sample' = [sample EXCEPT
           !.stack[Len(sample.stack)] =
               [@ EXCEPT !.expanded = Append(@, Top(sample.stack).options[
                                                     Top(sample.stack).i]),
                         !.i = @ + 1]]
    /\ UNCHANGED <<coordVars, probe, parseVars, heap, styleCall, renderer, editor>>

\* this.expandStyleReferences(styleOptions): a new frame
ExpandRecurse ==
    /\ Expanding
    /\ Top(sample.stack).i <= Len(Top(sample.stack).options)
    /\ IsStyleReference(sample.styles,
                        Top(sample.stack).options[Top(sample.stack).i])
    /\ Len(sample.stack) < MaxDepth
    /\ sample' = [sample EXCEPT
           !.stack = Append(@, Frame(StyleOptions(sample.styles,
                         Top(sample.stack).options[Top(sample.stack).i])))]
    /\ UNCHANGED <<coordVars, probe, parseVars, heap, styleCall, renderer, editor>>

\* the same call when the engine has no room for its frame: RangeError
ExpandOverflow ==
    /\ Expanding
    /\ Top(sample.stack).i <= Len(Top(sample.stack).options)
    /\ IsStyleReference(sample.styles,
                        Top(sample.stack).options[Top(sample.stack).i])
    /\ Len(sample.stack) >= MaxDepth
    /\ sample' = [sample EXCEPT !.phase = "overflow"]
    /\ UNCHANGED <<coordVars, probe, parseVars, heap, styleCall, renderer, editor>>

\* return expanded: to the caller, which pushes the result, or to
\* parseOptionsBlock
ExpandReturn ==
    /\ Expanding
    /\ Top(sample.stack).i > Len(Top(sample.stack).options)
    /\ sample' =
         IF Len(sample.stack) = 1
         THEN [sample EXCEPT !.phase = "returned",
                             !.result = Top(sample.stack).expanded]
         ELSE [sample EXCEPT
                  !.stack = [Pop(sample.stack) EXCEPT
                      ![Len(sample.stack) - 1] =
                          [@ EXCEPT !.expanded =
                                        PushAll(@, Top(sample.stack).expanded),
                                    !.i = @ + 1]]]
    /\ UNCHANGED <<coordVars, probe, parseVars, heap, styleCall, renderer, editor>>

NextExpand ==
    \/ ExpandCall
    \/ ExpandKeep
    \/ ExpandRecurse
    \/ ExpandOverflow
    \/ ExpandReturn

\* a call that can take a step takes it: the program runs
SpecExpand == InitExpand /\ [][NextExpand]_vars /\ WF_vars(NextExpand)

\* the styles named as bare options in the definition of a style
StyleRefs(styles, name) ==
    {styles[name][i][1].s : i \in {k \in 1..Len(styles[name]) :
                                      IsStyleReference(styles, styles[name][k])}}

\* the styles that the expansion of the styles of a set comes to
RECURSIVE Reached(_, _, _)
Reached(styles, names, rounds) ==
    IF rounds = 0 THEN names
    ELSE Reached(styles,
                 names \cup UNION {StyleRefs(styles, n) : n \in names},
                 rounds - 1)

\* the definition of the style contains its own name, directly or through
\* other styles
ReachesItself(styles, name) ==
    name \in Reached(styles, StyleRefs(styles, name), Cardinality(StyleNames))

Acyclic(styles) == \A name \in DOMAIN styles : ~ReachesItself(styles, name)

\* the options that are no style name, in their order
RECURSIVE PlainOptions(_, _)
PlainOptions(styles, options) ==
    IF options = <<>> THEN <<>>
    ELSE IF IsStyleReference(styles, Head(options))
    THEN PlainOptions(styles, Tail(options))
    ELSE <<Head(options)>> \o PlainOptions(styles, Tail(options))

\* b holds the elements of a in their order
RECURSIVE IsSubsequence(_, _)
IsSubsequence(a, b) ==
    IF a = <<>> THEN TRUE
    ELSE IF b = <<>> THEN FALSE
    ELSE IF Head(a) = Head(b) THEN IsSubsequence(Tail(a), Tail(b))
    ELSE IsSubsequence(a, Tail(b))

ExpandReturned ==
    /\ sample # NoCall
    /\ sample.phase = "returned"

\* C27: with a style table in which no definition reaches its own name the
\* call returns; the list it returns has no bare option that is the name of
\* a style and holds the options of the call that are no style name in their
\* order (it is the list the recursion of the parser model gives)
C27_AcyclicExpands ==
    /\ [](ExpandReturned /\ Acyclic(sample.styles) =>
            /\ \A k \in 1..Len(sample.result) :
                   ~IsStyleReference(sample.styles, sample.result[k])
            /\ IsSubsequence(PlainOptions(sample.styles, sample.options),
                             sample.result)
            /\ sample.result
                   = expandStyleReferences(sample.styles, sample.options))
    /\ (sample # NoCall /\ Acyclic(sample.styles)) ~> ExpandReturned

\* a call has returned the expansion of a style defined through a second
\* style, itself defined through a third: [s, s=1] gives s=1, red, thick, s=1
C27_Witness ==
    /\ ExpandReturned
    /\ Acyclic(sample.styles)
    /\ sample.options = <<Opt("s"), KeyedS>>
    /\ sample.styles = [n \in StyleNames |->
                            CASE n = "s" -> <<KeyedS, Opt("t")>>
                              [] n = "t" -> <<Opt("u"), Opt("thick")>>
                              [] OTHER -> <<Opt("red")>>]
    /\ sample.result = <<KeyedS, Opt("red"), Opt("thick"), KeyedS>>

\* an option of the call is the name of a style whose definition reaches its
\* own name
RefersToCycle(styles, options) ==
    \E i \in 1..Len(options) :
        /\ IsStyleReference(styles, options[i])
        /\ ReachesItself(styles, options[i][1].s)

\* C28: a call whose options name a style that contains its own name,
\* directly or through other styles, never returns a list: nothing stops
\* the recursion
C28_CycleNeverReturns ==
    (sample # NoCall /\ RefersToCycle(sample.styles, sample.options)) =>
        sample.phase # "returned"

\* the recursion through s -> t -> u -> s has filled every frame there is
C28_Witness ==
    /\ sample # NoCall
    /\ sample.phase = "overflow"
    /\ Len(sample.stack) = MaxDepth
    /\ sample.options = <<Opt("s")>>
    /\ sample.styles = [n \in StyleNames |->
                            CASE n = "s" -> <<Opt("t")>>
                              [] n = "t" -> <<Opt("u"), Opt("thick")>>
                              [] OTHER -> <<Opt("s")>>]

-----------------------------------------------------------------------------
(* SpecEditor: the page of main.js with its TikZEditor (part_005): the       *)
(* example selector, the loads under way, the text of the Textarea, the      *)
(* timers of the browser and the clock.  Every handler runs to its end       *)
(* before the next starts; a load gives way at each of its two awaits.       *)

\* the clock stops here, and so many times the user selects or types
MaxTime == 4
MaxEvents == 3

\* debounceDelay (150 ms) in ticks of the clock
DebounceDelay == 2

\* the examples of the selector and the text of their files
Examples == {"basic", "arrows"}
ExampleText(example) == IF example = "basic" THEN "\\draw A;" ELSE "\\draw B;"

\* what the user can type the text into
TypedTexts == {"", "\\draw x;"}

\* new TikZEditor(), init(), and load(url) when the page has ?file= (main.js
\* 57-61): the load of that file is under way with the number 0
NewEditor(file) ==
    [text |-> "", selected |-> "", selections |-> 0, typed |-> FALSE,
     shown |-> FALSE,
     loads |-> IF file = "" THEN {}
               ELSE {[id |-> 0, example |-> file, stage |-> "fetch"]},
     timers |-> {}, debounceTimer |-> 0, nextTimer |-> 1, now |-> 0,
     lastInput |-> -1, renders |-> 0, lastRender |-> NoCall, events |-> 0]

\* onInput without clearTimeout
onInput_NoClear(e) ==
    [e EXCEPT !.timers = @ \cup {[id |-> e.nextTimer,
                                  due |-> e.now + DebounceDelay]},
              !.debounceTimer = e.nextTimer,
              !.nextTimer = @ + 1,
              !.lastInput = e.now,
              !.renders = 0]

\* onInput (part_005 59-63): clearTimeout(this.debounceTimer), then
\* setTimeout(() => this.render(), this.debounceDelay)
onInput(e) ==
    [e EXCEPT !.timers = {t \in @ : t.id # e.debounceTimer}
                         \cup {[id |-> e.nextTimer,
                                due |-> e.now + DebounceDelay]},
              !.debounceTimer = e.nextTimer,
              !.nextTimer = @ + 1,
              !.lastInput = e.now,
              !.renders = 0]

\* setValue (part_005 140-143): this.textarea.value = code replaces the
\* document, and the update listener sends "input" when the document
\* changed (textarea.js 18-22, 48-57); replacing nothing by nothing is no
\* change.  The render() that follows is not a debounced one.
setValue(e, code) ==
    IF e.text = "" /\ code = "" THEN e
    ELSE onInput([e EXCEPT !.text = code])

InitEditor ==
    /\ CoordIdle
    /\ ParseIdle
    /\ heap = <<>>
    /\ styleCall = NoCall
    /\ renderer = NoCall
    /\ sample = NoCall
    /\ \E file \in Examples \cup {""} : editor = NewEditor(file)

\* the change listener of the selector (main.js 62-74): a load starts and
\* gives way at await fetch(url); with the empty entry the text is cleared
SelectExample ==
    /\ editor.events < MaxEvents
    /\ \E value \in Examples \cup {""} :
           editor' =
             IF value = ""
             THEN setValue([editor EXCEPT !.selected = "", !.typed = FALSE,
                                          !.shown = FALSE,
                                          !.events = @ + 1], "")
             ELSE [editor EXCEPT
                      !.selected = value,
                      !.selections = @ + 1,
                      !.typed = FALSE,
                      !.shown = FALSE,
                      !.events = @ + 1,
                      !.loads = @ \cup {[id |-> editor.selections + 1,
                                         example |-> value,
                                         stage |-> "fetch"]}]
    /\ UNCHANGED <<coordVars, probe, parseVars, heap, styleCall, renderer, sample>>

\* await fetch(url) is over (main.js 42-47): the load goes on to await
\* response.text(), or it ends with an alert when the response is not ok or
\* fetch threw
LoadResponds ==
    /\ \E load \in editor.loads, ok \in BOOLEAN :
           /\ load.stage = "fetch"
           /\ editor' = [editor EXCEPT !.loads =
                  (@ \ {load})
                  \cup (IF ok THEN {[load EXCEPT !.stage = "text"]} ELSE {})]
    /\ UNCHANGED <<coordVars, probe, parseVars, heap, styleCall, renderer, sample>>

\* await response.text() is over (main.js 48-51): editor.setValue(example)
TextArrives ==
    /\ \E load \in editor.loads :
           /\ load.stage = "text"
           /\ editor' =
                [setValue(editor, ExampleText(load.example)) EXCEPT
                    !.loads = @ \ {load},
                    !.shown = @ \/ load.id = editor.selections]
    /\ UNCHANGED <<coordVars, probe, parseVars, heap, styleCall, renderer, sample>>

\* the user changes the text: the update listener sends "input"
UserTypes ==
    /\ editor.events < MaxEvents
    /\ \E text \in TypedTexts \ {editor.text} :
           editor' = onInput([editor EXCEPT !.text = text, !.typed = TRUE,
                                            !.events = @ + 1])
    /\ UNCHANGED <<coordVars, probe, parseVars, heap, styleCall, renderer, sample>>

\* a timer is due: its callback runs render(), which reads this.textarea.value
\* (part_005 88-89)
TimerFires ==
    /\ \E timer \in editor.timers :
           /\ timer.due <= editor.now
           /\ editor' = [editor EXCEPT
                  !.timers = @ \ {timer},
                  !.renders = @ + 1,
                  !.lastRender = [at |-> editor.now, text |-> editor.text]]
    /\ UNCHANGED <<coordVars, probe, parseVars, heap, styleCall, renderer, sample>>

\* the clock goes on when no timer is due
Tick ==
    /\ editor.now < MaxTime
    /\ \A timer \in editor.timers : timer.due > editor.now
    /\ editor' = [editor EXCEPT !.now = @ + 1]
    /\ UNCHANGED <<coordVars, probe, parseVars, heap, styleCall, renderer, sample>>

NextEditor ==
    \/ SelectExample
    \/ LoadResponds
    \/ TextArrives
    \/ UserTypes
    \/ TimerFires
    \/ Tick

SpecEditor == InitEditor /\ [][NextEditor]_vars

\* C29: once the load of the latest selection has put its text into the
\* editor, and the user has typed nothing since, the editor shows the text
\* of the selected example, in whatever order the loads end
C29_LatestSelectionShown ==
    (editor.selected # "" /\ editor.shown /\ ~editor.typed) =>
        editor.text = ExampleText(editor.selected)

\* C30: never more than one timer is pending; a pending timer is the one of
\* the last input event and is due debounceDelay after it; when none is
\* pending the events since the last render-free input have been followed by
\* one debounced render, debounceDelay after the last of them, of the text
\* the editor had then
C30_OneDebouncedRender ==
    /\ Cardinality(editor.timers) <= 1
    /\ \A timer \in editor.timers :
           /\ timer.id = editor.debounceTimer
           /\ timer.due = editor.lastInput + DebounceDelay
           /\ editor.renders = 0
    /\ editor.lastInput < 0 => (editor.renders = 0 /\ editor.timers = {})
    /\ (editor.timers = {} /\ editor.lastInput >= 0) =>
           /\ editor.renders = 1
           /\ editor.lastRender.at = editor.lastInput + DebounceDelay
           /\ editor.lastRender.text = editor.text

\* two input events less than debounceDelay apart, and the one render that
\* followed them
C30_Witness ==
    /\ editor.events >= 2
    /\ editor.timers = {}
    /\ editor.renders = 1
    /\ editor.nextTimer >= 3
    /\ editor.lastRender.at = editor.lastInput + DebounceDelay
    /\ editor.lastInput = 1
    /\ editor.text = "\\draw x;"

=============================================================================
